---------------------------- MODULE Spec2Model ----------------------------
(***************************************************************************)
(* A model of the drought-map pipeline scripts (src/scripts/*.py):         *)
(* trend estimation per station, spatial aggregation onto municipalities,  *)
(* risk composition, and the JSON files the stages read and rewrite.       *)
(*                                                                         *)
(* Numbers.  Python floats are modelled by exact rationals <<n, d>> with   *)
(* d > 0, reduced by their gcd.  Stored decimals are scaled integers:      *)
(*   lat, lon                 hundredths of a degree                       *)
(*   risks, scores, factors   thousandths            (round(x, 3))         *)
(*   trend_pct_decade         tenths of a percent    (round(x, 1))         *)
(*   trend_mm_decade          tenths of a millimetre (round(x, 1))         *)
(*   trend_m_per_decade       1e-4 metres            (round(x, 4))         *)
(* round() is modelled as round-half-even on the exact value.              *)
(***************************************************************************)
EXTENDS Integers, Sequences, FiniteSets, TLC

VARIABLES
    nbFlow,     \* find_nearby_flow: the flow_stations argument
    nbPrecip,   \* find_nearby_precip: the precip_stations argument
    nbOut,      \* what the last find_nearby_* call returned
    gwSeries,   \* analyze_trends_full.calculate_trend: the series argument
    gwOut,      \* what calculate_trend returned
    dayValues,  \* the (date, value) list parse_flow_file / parse_precip_file returned
    dayOut,     \* what calculate_annual_stats / calculate_annual_totals made of it
    fileLines,  \* the lines of a station file, each the list of its ';'-separated fields
    parsed,     \* what the parser called on the file did with it
    args,       \* the arguments of a function of the scripts called on its own
    result,     \* what that function returned
    files,               \* the files that exist under web/data
    municipalities,      \* web/data/municipalities.json: the list of region records
    geojson,             \* web/data/municipalities_risk.geojson: the properties of its features
    gw_stations,         \* web/data/gw_stations.json
    gw_stations_trends,  \* web/data/gw_stations_trends.json
    lastRun,             \* the script run last, and whether it ran to its end
    writers,             \* <<field, stage>>: the stage changed that field of a stored region record
    runs                 \* the number of scripts run so far

nearbyVars == <<nbFlow, nbPrecip, nbOut>>

seriesVars == <<gwSeries, gwOut, dayValues, dayOut>>

parseVars == <<fileLines, parsed>>

callVars == <<args, result>>

storeVars ==
    <<files, municipalities, geojson, gw_stations, gw_stations_trends, lastRun, writers,
      runs>>

vars ==
    <<nbFlow, nbPrecip, nbOut, gwSeries, gwOut, dayValues, dayOut, fileLines, parsed,
      args, result,
      files, municipalities, geojson, gw_stations, gw_stations_trends, lastRun, writers,
      runs>>

\* no station file has been read
NoFile == fileLines = <<>> /\ parsed = [fn |-> "none"]

\* no function has been called on its own
NoCall == args = <<>> /\ result = [fn |-> "none"]

\* web/data before any script has run
EmptyStore ==
    /\ files = {}
    /\ municipalities = <<>>
    /\ geojson = <<>>
    /\ gw_stations = <<>>
    /\ gw_stations_trends = <<>>
    /\ lastRun = [stage |-> "none", ok |-> TRUE]
    /\ writers = {}
    /\ runs = 0

---------------------------------------------------------------------------
(* Arithmetic *)

Abs(x) == IF x < 0 THEN -x ELSE x

Min(a, b) == IF a <= b THEN a ELSE b

Max(a, b) == IF a >= b THEN a ELSE b

RECURSIVE GCD(_, _)
GCD(a, b) == IF b = 0 THEN Abs(a) ELSE GCD(b, a % Abs(b))

\* the rational n/d in lowest terms, d > 0
RNorm(n, d) ==
    LET g == GCD(n, d)
        s == IF d < 0 THEN -1 ELSE 1
    IN  IF n = 0 THEN <<0, 1>> ELSE <<s * (n \div g), s * (d \div g)>>

RInt(k) == <<k, 1>>

RAdd(a, b) ==
    LET g == GCD(a[2], b[2])
    IN  RNorm(a[1] * (b[2] \div g) + b[1] * (a[2] \div g), (a[2] \div g) * b[2])

RNeg(a) == <<-a[1], a[2]>>

RSub(a, b) == RAdd(a, RNeg(b))

RMul(a, b) ==
    LET g1 == GCD(a[1], b[2])
        g2 == GCD(b[1], a[2])
    IN  IF a[1] = 0 \/ b[1] = 0 THEN <<0, 1>>
        ELSE RNorm((a[1] \div g1) * (b[1] \div g2), (a[2] \div g2) * (b[2] \div g1))

\* a / b, b # 0
RDiv(a, b) == RMul(a, RNorm(b[2], b[1]))

RLt(a, b) == RSub(a, b)[1] < 0

RLe(a, b) == RSub(a, b)[1] <= 0

RAbs(a) == <<Abs(a[1]), a[2]>>

RMin(a, b) == IF RLe(a, b) THEN a ELSE b

RMax(a, b) == IF RLe(a, b) THEN b ELSE a

\* Python round(): the integer nearest to n/d, a tie going to the even one
RoundDiv(n, d) ==
    LET q == n \div d
        r == n % d
    IN  IF 2 * r < d THEN q
        ELSE IF 2 * r > d THEN q + 1
        ELSE IF q % 2 = 0 THEN q ELSE q + 1

\* round(a * scale) for a rational a
RRound(a, scale) == RoundDiv(a[1] * scale, a[2])

RECURSIVE ISqrtIter(_, _, _)
ISqrtIter(n, lo, hi) ==
    IF hi - lo <= 1 THEN lo
    ELSE LET mid == (lo + hi) \div 2
         IN  IF mid * mid <= n THEN ISqrtIter(n, mid, hi) ELSE ISqrtIter(n, lo, mid)

\* floor of the square root, n < 46340^2
ISqrt(n) == ISqrtIter(n, 0, 46340)

RECURSIVE SeqSum(_)
SeqSum(s) == IF s = <<>> THEN 0 ELSE s[1] + SeqSum(Tail(s))

RECURSIVE RSeqSum(_)
RSeqSum(s) == IF s = <<>> THEN <<0, 1>> ELSE RAdd(s[1], RSeqSum(Tail(s)))

Range(s) == {s[i] : i \in DOMAIN s}

SeqsUpTo(S, n) == UNION {[1..k -> S] : k \in 0..n}

---------------------------------------------------------------------------
(* Distance *)

\* haversine(lat1, lon1, lat2, lon2): the great-circle distance, returned in
\* units of 10 m.  At Austria's latitude one hundredth of a degree is 1.11 km
\* north-south and 0.75 km east-west (the factors 111000 and 75000 of the
\* scripts' own conversions); the distance is the length of that chord.
Haversine(lat1, lon1, lat2, lon2) ==
    LET ns == 111 * (lat2 - lat1)
        ew == 75 * (lon2 - lon1)
    IN  ISqrt(ns * ns + ew * ew)

\* dist <= max_dist_km, dist in units of 10 m
WithinStrict(dist, max_dist_km) == dist < 100 * max_dist_km

WithinKm(dist, max_dist_km) == dist <= 100 * max_dist_km

\* every station weighted alike
EqualWeight(dist) == <<1, 1>>

\* weight = 1 / (1 + dist), dist in km
IDWeight(dist) == RNorm(100, 100 + dist)

---------------------------------------------------------------------------
(* integrate_flow.py / integrate_precipitation.py: spatial aggregation *)

\* {**f, 'dist': dist} for every station, in the order of the input list
WithDist(muni, stations) ==
    [i \in 1..Len(stations) |->
        [f |-> stations[i],
         dist |-> Haversine(muni.lat, muni.lon, stations[i].lat, stations[i].lon)]]

\* list.sort(key=lambda x: x['dist']) is stable: e goes behind every element
\* whose key is not greater than its own
RECURSIVE InsertByDist(_, _)
InsertByDist(e, sorted) ==
    IF sorted = <<>> THEN <<e>>
    ELSE IF sorted[1].dist <= e.dist
         THEN <<sorted[1]>> \o InsertByDist(e, Tail(sorted))
         ELSE <<e>> \o sorted

RECURSIVE SortByDistFrom(_, _)
SortByDistFrom(s, acc) ==
    IF s = <<>> THEN acc ELSE SortByDistFrom(Tail(s), InsertByDist(s[1], acc))

SortByDist(s) == SortByDistFrom(s, <<>>)

\* all_with_dist[:3]
NearestK == 3

FirstN(s, n) == SubSeq(s, 1, Min(n, Len(s)))

\* the list `nearby` and the flag `estimated` as they stand before the
\* early return of find_nearby_flow / find_nearby_precip
NearbyOf(muni, stations, max_dist_km) ==
    LET all == WithDist(muni, stations)
        inRadius == SelectSeq(all, LAMBDA e : WithinKm(e.dist, max_dist_km))
    IN  IF inRadius # <<>>
        THEN [nearby |-> inRadius, estimated |-> FALSE]
        ELSE [nearby |-> FirstN(SortByDist(all), NearestK), estimated |-> TRUE]

\* sum(value * weight) / sum(weight) over `nearby`, weight = 1 / (1 + dist)
WeightedMean(nearby, Value(_)) ==
    LET w == [i \in 1..Len(nearby) |-> IDWeight(nearby[i].dist)]
        wv == [i \in 1..Len(nearby) |-> RMul(RInt(Value(nearby[i].f)), w[i])]
    IN  RDiv(RSeqSum(wv), RSeqSum(w))

\* set(f['river'] for f in nearby if f.get('river'))
RiversOf(nearby) == {nearby[i].f.river : i \in {j \in 1..Len(nearby) : nearby[j].f.river # ""}}

\* rivers[:4]
MaxRivers == 4

\* list(set(...))[:4]: the iteration order of a set of strings differs from
\* one interpreter run to the next (string hashing is seeded per process),
\* so any MaxRivers of the rivers may be the ones kept
RiverChoices(rivers) ==
    IF Cardinality(rivers) <= MaxRivers THEN {rivers}
    ELSE {r \in SUBSET rivers : Cardinality(r) = MaxRivers}

\* a summary with a trend and a mean of 0 where there is none
ZeroSummary ==
    [has |-> TRUE, trend |-> <<0, 1>>, mean |-> <<0, 1>>, count |-> 0,
     rivers |-> {}, estimated |-> FALSE, ids |-> <<>>]

\* return None, None, 0, [], False
NoSummaryFlow ==
    [has |-> FALSE, trend |-> <<0, 1>>, mean |-> <<0, 1>>, count |-> 0,
     rivers |-> {}, estimated |-> FALSE, ids |-> <<>>]

\* find_nearby_flow(muni, flow_stations, max_dist_km=30) with the rivers kept
\* being `kept`; ids lists the hzb of the stations of `nearby`
FindNearbyFlow(muni, flow_stations, max_dist_km, kept) ==
    LET n == NearbyOf(muni, flow_stations, max_dist_km)
    IN  IF n.nearby = <<>> THEN NoSummaryFlow
        ELSE [has |-> TRUE,
              trend |-> WeightedMean(n.nearby, LAMBDA f : f.trend_pct_decade),
              mean |-> WeightedMean(n.nearby, LAMBDA f : f.mean_flow_m3s),
              count |-> Len(n.nearby),
              rivers |-> kept,
              estimated |-> n.estimated,
              ids |-> [i \in 1..Len(n.nearby) |-> n.nearby[i].f.hzb]]

FlowRiverChoices(muni, flow_stations, max_dist_km) ==
    RiverChoices(RiversOf(NearbyOf(muni, flow_stations, max_dist_km).nearby))

NoSummaryPrecip ==
    [has |-> FALSE, trend |-> <<0, 1>>, mean |-> <<0, 1>>, count |-> 0,
     rivers |-> {}, estimated |-> FALSE, ids |-> <<>>]

\* find_nearby_precip(muni, precip_stations, max_dist_km=30)
FindNearbyPrecip(muni, precip_stations, max_dist_km) ==
    LET n == NearbyOf(muni, precip_stations, max_dist_km)
    IN  IF n.nearby = <<>> THEN NoSummaryPrecip
        ELSE [has |-> TRUE,
              trend |-> WeightedMean(n.nearby, LAMBDA p : p.trend_mm_decade),
              mean |-> WeightedMean(n.nearby, LAMBDA p : p.mean_annual_mm),
              count |-> Len(n.nearby),
              rivers |-> {},
              estimated |-> n.estimated,
              ids |-> [i \in 1..Len(n.nearby) |-> n.nearby[i].f.hzb]]

\* max_dist_km=30
MaxDistKm == 30

---------------------------------------------------------------------------
(* The aggregation functions on their own: every list of up to MaxStations *)
(* stations placed east and west of one municipality.                      *)

MaxStations == 4

\* the municipality the lists are aggregated for
NbMuni == [name |-> "Kaprun", lat |-> 4727, lon |-> 1276]

\* offsets in hundredths of a degree of longitude: 0 km, 30 km (on the
\* radius), 30.75 km east and west (equidistant, outside), 60 km
NbOffsets == {0, 40, 41, -41, 80}

NbRivers == <<"Salzach", "Inn", "Enns", "Mur", "Drau">>

NbFlowStation(i, off) ==
    [hzb |-> i, river |-> NbRivers[((i - 1) % Len(NbRivers)) + 1],
     lat |-> NbMuni.lat, lon |-> NbMuni.lon + off,
     trend_pct_decade |-> 15 - 10 * i, mean_flow_m3s |-> 1000 * i]

NbPrecipStation(i, off) ==
    [hzb |-> i, river |-> "", lat |-> NbMuni.lat, lon |-> NbMuni.lon + off,
     trend_mm_decade |-> 250 - 200 * i, mean_annual_mm |-> 900 + 100 * i]

NbInit ==
    \E offs \in SeqsUpTo(NbOffsets, MaxStations) :
        /\ nbFlow = [i \in 1..Len(offs) |-> NbFlowStation(i, offs[i])]
        /\ nbPrecip = [i \in 1..Len(offs) |-> NbPrecipStation(i, offs[i])]
        /\ nbOut = [fn |-> "none", res |-> NoSummaryFlow]
        /\ gwSeries = <<>> /\ gwOut = [fn |-> "none"]
        /\ dayValues = <<>> /\ dayOut = [fn |-> "none"]
        /\ EmptyStore
        /\ NoFile
        /\ NoCall

CallFindNearbyFlow ==
    /\ nbOut.fn = "none"
    /\ \E kept \in FlowRiverChoices(NbMuni, nbFlow, MaxDistKm) :
          nbOut' = [fn |-> "find_nearby_flow",
                    res |-> FindNearbyFlow(NbMuni, nbFlow, MaxDistKm, kept)]
    /\ UNCHANGED <<nbFlow, nbPrecip>>
    /\ UNCHANGED seriesVars
    /\ UNCHANGED parseVars
    /\ UNCHANGED callVars
    /\ UNCHANGED storeVars

CallFindNearbyPrecip ==
    /\ nbOut.fn = "none"
    /\ nbOut' = [fn |-> "find_nearby_precip",
                 res |-> FindNearbyPrecip(NbMuni, nbPrecip, MaxDistKm)]
    /\ UNCHANGED <<nbFlow, nbPrecip>>
    /\ UNCHANGED seriesVars
    /\ UNCHANGED parseVars
    /\ UNCHANGED callVars
    /\ UNCHANGED storeVars

NbNext == CallFindNearbyFlow \/ CallFindNearbyPrecip

SpecNearby == NbInit /\ [][NbNext]_vars

\* the distance of station i of the list from the municipality, and the
\* stations inside the radius
NbDist(i) == Haversine(NbMuni.lat, NbMuni.lon, nbFlow[i].lat, nbFlow[i].lon)

NbInRadius == {i \in 1..Len(nbFlow) : NbDist(i) <= 100 * MaxDistKm}

\* station i comes before station j: nearer, or as near and earlier in the list
NbBefore(i, j) == NbDist(i) < NbDist(j) \/ (NbDist(i) = NbDist(j) /\ i < j)

\* ids holds the k nearest stations, nearest first, equidistant ones in list order
NbIsNearest(ids, k) ==
    /\ Len(ids) = Min(k, Len(nbFlow))
    /\ \A a \in 1..Len(ids) : ids[a] \in 1..Len(nbFlow)
    /\ \A a, b \in 1..Len(ids) : a < b => NbBefore(ids[a], ids[b])
    /\ \A j \in 1..Len(nbFlow) : j \notin Range(ids) =>
          \A a \in 1..Len(ids) : NbBefore(ids[a], j)

NbExactlyInRadius(ids) ==
    /\ Range(ids) = NbInRadius
    /\ Len(ids) = Cardinality(NbInRadius)

\* C1 as stated: a station within the radius gives estimated = false and the
\* stations within the radius; none within the radius gives estimated = true
\* and the 3 nearest stations, equidistant ones in list order.
C1_AsStated ==
    nbOut.fn # "none" =>
        /\ NbInRadius # {} =>
              ~nbOut.res.estimated /\ NbExactlyInRadius(nbOut.res.ids)
        /\ NbInRadius = {} =>
              nbOut.res.estimated /\ NbIsNearest(nbOut.res.ids, 3)

\* C1 amended: as stated for a non-empty list (the 3 nearest being all the
\* stations when there are fewer than 3); for an empty list the functions
\* return no summary, with estimated = false and no contributing station.
C1_NearbySelection ==
    nbOut.fn # "none" =>
        /\ NbInRadius # {} =>
              /\ nbOut.res.has /\ ~nbOut.res.estimated
              /\ NbExactlyInRadius(nbOut.res.ids)
              /\ nbOut.res.count = Cardinality(NbInRadius)
        /\ (NbInRadius = {} /\ nbFlow # <<>>) =>
              /\ nbOut.res.has /\ nbOut.res.estimated
              /\ NbIsNearest(nbOut.res.ids, 3)
              /\ nbOut.res.count = Min(3, Len(nbFlow))
        /\ nbFlow = <<>> =>
              ~nbOut.res.has /\ ~nbOut.res.estimated /\ nbOut.res.ids = <<>>

\* the fallback took 3 of 4 stations and left out one that is as far away as
\* one it took
C1_Witness ==
    /\ nbOut.fn = "find_nearby_flow"
    /\ nbOut.res.estimated
    /\ Len(nbOut.res.ids) = 3
    /\ \E i \in Range(nbOut.res.ids) : \E j \in 1..Len(nbFlow) :
          j \notin Range(nbOut.res.ids) /\ NbDist(i) = NbDist(j)

---------------------------------------------------------------------------
(* analyze_trends_full.py: calculate_trend on a pandas Series.  An          *)
(* observation is [y, s, v]: year, slot within the year (month, or day of   *)
(* the year) and value; (y, s) is its timestamp.  Levels are in cm.         *)

TimeLt(a, b) == a.y < b.y \/ (a.y = b.y /\ a.s < b.s)

SameTime(a, b) == a.y = b.y /\ a.s = b.s

\* s as an explicit tuple
Tuple(s) == SelectSeq(s, LAMBDA x : TRUE)

\* the elements of s that Keep admits by position, in the order of s
SelectAt(s, Keep(_)) ==
    LET kept == SelectSeq(Tuple([i \in 1..Len(s) |-> i]), Keep)
    IN  Tuple([r \in 1..Len(kept) |-> s[kept[r]]])

\* series[~series.index.duplicated(keep='first')]: a row stays unless an
\* earlier row has its timestamp
DedupKeepFirst(s) ==
    SelectAt(s, LAMBDA i : \A j \in 1..(i - 1) : ~SameTime(s[j], s[i]))

\* s reordered by Before, a strict total order of the positions of s
SortedBy(s, Before(_, _)) ==
    LET n == Len(s)
        rk == Tuple([i \in 1..n |-> 1 + Cardinality({j \in 1..n : Before(j, i)})])
        at == Tuple([r \in 1..n |-> CHOOSE i \in 1..n : rk[i] = r])
    IN  Tuple([r \in 1..n |-> s[at[r]]])

\* .sort_index(): ascending timestamps, rows of one timestamp in their order
SortIndex(s) ==
    SortedBy(s, LAMBDA j, i : TimeLt(s[j], s[i]) \/ (SameTime(s[j], s[i]) /\ j < i))

\* the values of s in ascending order
SortedValues(s) ==
    LET vs == Tuple([i \in 1..Len(s) |-> s[i].v])
    IN  SortedBy(vs, LAMBDA j, i : vs[j] < vs[i] \/ (vs[j] = vs[i] /\ j < i))

\* Series.quantile(num/den): linear interpolation between the order statistics
Quantile(sorted, num, den) ==
    LET pos == num * (Len(sorted) - 1)
        lo == pos \div den
        r == pos % den
    IN  IF r = 0 THEN RInt(sorted[lo + 1])
        ELSE RAdd(RInt(sorted[lo + 1]),
                  RMul(RNorm(r, den), RInt(sorted[lo + 2] - sorted[lo + 1])))

\* the 3 x IQR filter, applied only when IQR > 0
IQRFilter(s) ==
    LET sorted == SortedValues(s)
        Q1 == Quantile(sorted, 1, 4)
        Q3 == Quantile(sorted, 3, 4)
        IQR == RSub(Q3, Q1)
        lower == RSub(Q1, RMul(RInt(3), IQR))
        upper == RAdd(Q3, RMul(RInt(3), IQR))
    IN  IF IQR[1] > 0
        THEN SelectSeq(s, LAMBDA o : RLe(lower, RInt(o.v)) /\ RLe(RInt(o.v), upper))
        ELSE s

RECURSIVE SumValues(_)
SumValues(s) == IF s = <<>> THEN 0 ELSE s[1].v + SumValues(Tail(s))

RECURSIVE AscendingFrom(_, _)
AscendingFrom(S, acc) ==
    IF S = {} THEN acc
    ELSE LET m == CHOOSE x \in S : \A z \in S : x <= z
         IN  AscendingFrom(S \ {m}, Append(acc, m))

\* sorted(S)
Ascending(S) == AscendingFrom(S, <<>>)

YearsOf(s) == {s[i].y : i \in DOMAIN s}

InYear(s, yr) == SelectSeq(s, LAMBDA o : o.y = yr)

\* series.resample('YE').mean().dropna(): the mean of every year that has data
ResampleAnnualMean(s) ==
    LET years == Ascending(YearsOf(s))
    IN  [k \in 1..Len(years) |->
            RNorm(SumValues(InYear(s, years[k])), Len(InYear(s, years[k])))]

\* np.mean(y)
RMean(ys) == RDiv(RSeqSum(ys), RInt(Len(ys)))

\* stats.linregress(np.arange(len(y)), y).slope
OLSSlopeIndex(ys) ==
    LET n == Len(ys)
        Sx == SeqSum([k \in 1..n |-> k - 1])
        Sxx == SeqSum([k \in 1..n |-> (k - 1) * (k - 1)])
        Sy == RSeqSum(ys)
        Sxy == RSeqSum([k \in 1..n |-> RMul(RInt(k - 1), ys[k])])
    IN  RDiv(RSub(RMul(RInt(n), Sxy), RMul(RInt(Sx), Sy)), RInt(n * Sxx - Sx * Sx))

\* len(series) < 60
MinSamples == 60

\* len(annual) < 5
MinAnnual == 5

\* mean_val > 3000 (metres)
MeanMaxM == 3000

\* abs(trend_per_decade) > 2 (metres per decade)
TrendMaxM == 2

NoTrend(entered) == [fn |-> "calculate_trend", has |-> FALSE, entered |-> entered]

\* a floor of four years of monthly values
TooFewLow(n) == n < 48

\* len(series) < 60, tested before and after the filter
TooFew(n) == n < MinSamples

\* calculate_trend(series); `entered` is the series resample() was called on
CalculateTrendGW(series) ==
    IF TooFew(Len(series)) THEN NoTrend(<<>>)
    ELSE LET clean == IQRFilter(SortIndex(DedupKeepFirst(series)))
             annual == ResampleAnnualMean(clean)
             trend == RMul(OLSSlopeIndex(annual), RInt(10))
         IN  IF TooFew(Len(clean)) THEN NoTrend(<<>>)
             ELSE IF Len(annual) < MinAnnual THEN NoTrend(clean)
             ELSE IF RLt(RMean(annual), RInt(0))
                     \/ RLt(RInt(MeanMaxM * 100), RMean(annual))
                  THEN NoTrend(clean)
             ELSE IF RLt(RInt(TrendMaxM * 100), RAbs(trend)) THEN NoTrend(clean)
             ELSE [fn |-> "calculate_trend", has |-> TRUE, entered |-> clean,
                   trend_per_decade |-> trend,
                   data_years |-> RNorm(Len(clean), 12),
                   mean_level |-> RMean(annual),
                   current_level |-> annual[Len(annual)]]

---------------------------------------------------------------------------
(* analyze_flow.py / analyze_precipitation.py: annual aggregation of the    *)
(* parsed (date, value) list                                                *)

\* len(vals) >= 300
MinDays == 300

\* by_year.setdefault(year, []).append(val) for every item of values, in order
ByYear(values) == [yr \in YearsOf(values) |-> InYear(values, yr)]

\* calculate_annual_stats(values): np.mean(vals) per year with enough days
CalculateAnnualStats(values) ==
    LET by_year == ByYear(values)
        full == {yr \in DOMAIN by_year : Len(by_year[yr]) >= MinDays}
    IN  [fn |-> "calculate_annual_stats",
         entered |-> values,
         annual |-> [yr \in full |-> RNorm(SumValues(by_year[yr]), Len(by_year[yr]))]]

\* calculate_annual_totals(values): sum(vals) per year with enough days
CalculateAnnualTotals(values) ==
    LET by_year == ByYear(values)
        full == {yr \in DOMAIN by_year : Len(by_year[yr]) >= MinDays}
    IN  [fn |-> "calculate_annual_totals",
         entered |-> values,
         annual |-> [yr \in full |-> RInt(SumValues(by_year[yr]))]]

---------------------------------------------------------------------------
(* The estimators on their own *)

MaxYears == 6

\* a monthly level series: `years` years from 1990 with `months` values each;
\* shape 0 is flat, 1 rises 1 cm a year, 2 rises 30 cm a year; `outlier`
\* puts the first value 1000 m too high; `dup` repeats the first timestamp
\* with another value at the end; `desc` lists the rows latest first
GwRows(years, months, base, shape) ==
    [i \in 1..(years * months) |->
        [y |-> 1990 + ((i - 1) \div months),
         s |-> ((i - 1) % months) + 1,
         v |-> base + (CASE shape = 0 -> 0
                         [] shape = 1 -> (i - 1) \div months
                         [] OTHER -> 30 * ((i - 1) \div months))]]

Reverse(s) == [i \in 1..Len(s) |-> s[Len(s) + 1 - i]]

GwSeriesOf(years, months, base, shape, outlier, dup, desc) ==
    LET rows == GwRows(years, months, base, shape)
        r1 == IF outlier THEN [rows EXCEPT ![1].v = base + 100000] ELSE rows
        r2 == IF desc THEN Reverse(r1) ELSE r1
    IN  IF dup THEN Append(r2, [y |-> 1990, s |-> 1, v |-> base + 50]) ELSE r2

GwInputs ==
    {GwSeriesOf(years, months, base, shape, outlier, dup, desc) :
        years \in (MaxYears - 2)..MaxYears, months \in {10, 12},
        base \in {-500, 10000, 300100}, shape \in {0, 1, 2},
        outlier \in BOOLEAN, dup \in BOOLEAN, desc \in BOOLEAN}

MaxObs == 3

DayObs ==
    [y : {2000, 2001}, s : {1, 2}, v : {3}] \cup {[y |-> 2000, s |-> 1, v |-> 5]}

SeriesInit ==
    /\ \/ gwSeries \in GwInputs /\ dayValues = <<>>
       \/ gwSeries = <<>> /\ dayValues \in SeqsUpTo(DayObs, MaxObs)
    /\ gwOut = [fn |-> "none"]
    /\ dayOut = [fn |-> "none"]
    /\ nbFlow = <<>> /\ nbPrecip = <<>>
    /\ nbOut = [fn |-> "none", res |-> NoSummaryFlow]
    /\ EmptyStore
    /\ NoFile
    /\ NoCall

CallCalculateTrend ==
    /\ gwOut.fn = "none"
    /\ gwOut' = CalculateTrendGW(gwSeries)
    /\ UNCHANGED <<gwSeries, dayValues, dayOut>>
    /\ UNCHANGED parseVars
    /\ UNCHANGED callVars
    /\ UNCHANGED nearbyVars
    /\ UNCHANGED storeVars

CallCalculateAnnualStats ==
    /\ dayOut.fn = "none"
    /\ dayOut' = CalculateAnnualStats(dayValues)
    /\ UNCHANGED <<gwSeries, gwOut, dayValues>>
    /\ UNCHANGED parseVars
    /\ UNCHANGED callVars
    /\ UNCHANGED nearbyVars
    /\ UNCHANGED storeVars

CallCalculateAnnualTotals ==
    /\ dayOut.fn = "none"
    /\ dayOut' = CalculateAnnualTotals(dayValues)
    /\ UNCHANGED <<gwSeries, gwOut, dayValues>>
    /\ UNCHANGED parseVars
    /\ UNCHANGED callVars
    /\ UNCHANGED nearbyVars
    /\ UNCHANGED storeVars

SeriesNext ==
    CallCalculateTrend \/ CallCalculateAnnualStats \/ CallCalculateAnnualTotals

SpecSeries == SeriesInit /\ [][SeriesNext]_vars

\* the series calculate_trend resamples: deduplicated, sorted, 3 x IQR filtered
C2Clean ==
    IF gwSeries = <<>> THEN <<>>
    ELSE IQRFilter(SortIndex(DedupKeepFirst(gwSeries)))

C2Annual == ResampleAnnualMean(C2Clean)

C2EnoughYears == Len(C2Annual) >= 5

C2MeanPlausible ==
    /\ RLe(RInt(0), RMean(C2Annual))
    /\ RLe(RMean(C2Annual), RInt(3000 * 100))

C2SlopePlausible ==
    RLe(RAbs(RMul(OLSSlopeIndex(C2Annual), RInt(10))), RInt(2 * 100))

\* C2 as stated: calculate_trend returns a trend if and only if there are at
\* least 5 annual means, their mean is within [0, 3000] m and the decadal
\* slope is at most 2 m in magnitude; nothing else blocks or admits a trend.
C2_AsStated ==
    gwOut.fn = "calculate_trend" =>
        (gwOut.has <=> (C2EnoughYears /\ C2MeanPlausible /\ C2SlopePlausible))

\* C2 amended: a trend is returned if and only if, besides the three
\* conditions, the deduplicated and outlier-filtered series still has at
\* least 60 observations.
C2_TrendIff ==
    gwOut.fn = "calculate_trend" =>
        (gwOut.has <=> (/\ Len(C2Clean) >= 60
                        /\ C2EnoughYears /\ C2MeanPlausible /\ C2SlopePlausible))

\* a trend came out of a series that lost rows to the cleaning
C2_Witness ==
    /\ gwOut.fn = "calculate_trend"
    /\ gwOut.has
    /\ Len(gwOut.entered) < Len(gwSeries)
    /\ gwOut.trend_per_decade[1] # 0

StrictlyIncreasing(s) == \A i \in 1..(Len(s) - 1) : TimeLt(s[i], s[i + 1])

\* C6 as stated: whatever the parsed file held, the observations an estimator
\* aggregates by year have strictly increasing timestamps (so no timestamp
\* occurs twice), for groundwater, discharge and precipitation alike.
C6_AsStated ==
    /\ gwOut.fn # "none" => StrictlyIncreasing(gwOut.entered)
    /\ dayOut.fn # "none" => StrictlyIncreasing(dayOut.entered)

---------------------------------------------------------------------------
(* JSON values.  An object is a function from its keys; a number that may   *)
(* be null is <<x>>, and null is <<>>.                                      *)

None == <<>>

Some(x) == <<x>>

Has(d, k) == k \in DOMAIN d

\* d.get(k, default), k holding a number or a string
GetNum(d, k, default) == IF Has(d, k) THEN d[k] ELSE default

\* d.get(k), k holding a number or null: None when the key is missing
GetOpt(d, k) == IF Has(d, k) THEN d[k] ELSE None

\* d.get(k, default) or default: a missing key, null and 0 all give default
GetOr(d, k, default) ==
    IF Has(d, k) /\ d[k] # None /\ d[k][1] # 0 THEN d[k][1] ELSE default

\* d.update(e), {**d, **e}
Update(d, e) == e @@ d

\* value in {r[key]: r for r in rows}
InLookup(rows, key, value) ==
    \E i \in DOMAIN rows : Has(rows[i], key) /\ rows[i][key] = value

\* {r[key]: r for r in rows}[value]: the last row that holds value under key
LookupLast(rows, key, value) ==
    LET hits == {i \in DOMAIN rows : Has(rows[i], key) /\ rows[i][key] = value}
    IN  rows[CHOOSE i \in hits : \A j \in hits : j <= i]

\* 'high' / 'medium' / 'low' with the thresholds excluded
CategoryAbove(score, high, medium) ==
    IF score > high THEN "high" ELSE IF score > medium THEN "medium" ELSE "low"

\* 'high' / 'medium' / 'low' with the thresholds included
CategoryFrom(score, high, medium) ==
    IF score >= high THEN "high" ELSE IF score >= medium THEN "medium" ELSE "low"

---------------------------------------------------------------------------
(* The input data the scripts read.  Coordinates of the station listing are *)
(* projected metres; mw is in tenths of a megawatt; trends of the analysis  *)
(* files are in the units of the header.                                    *)

\* data/gw/messstellen_gw.csv: hzbnr01, mstnam02, xrkko09, yhkko10, gwgeb03,
\* gwkoerpe04
GwListing ==
    << [id |-> "G1", name |-> "Kaprun Bl 1", x |-> 400000, y |-> 400000,
        area |-> "Salzachtal", body |-> "GK100001"],
       [id |-> "G2", name |-> "Arnoldstein Br 3", x |-> 400000, y |-> 250000,
        area |-> "Gailtal", body |-> "GK100002"],
       [id |-> "G3", name |-> "Freistadt Bl 2", x |-> 400000, y |-> 440000,
        area |-> "Feldaisttal", body |-> "GK100003"] >>

\* data/gemeinden.geojson: the properties and the outer ring of every feature
Gemeinden ==
    << [name |-> "Kaprun", iso |-> "50606",
        ring |-> << <<1320, 4740>>, <<1340, 4740>>, <<1340, 4760>>,
                    <<1320, 4760>>, <<1320, 4740>> >>],
       [name |-> "Freistadt", iso |-> "40601",
        ring |-> << <<1320, 4860>>, <<1340, 4860>>, <<1340, 4880>>,
                    <<1320, 4880>>, <<1320, 4860>> >>] >>

\* what load_powerplants() returns for data/powerplants.json
Powerplants ==
    << [lat |-> 4750, lon |-> 1330, type |-> "Speicherkraftwerk", mw |-> 2000,
        region |-> "Salzburg", river |-> "Salzach"],
       [lat |-> 4746, lon |-> 1326, type |-> "Pumpspeicherkraftwerk", mw |-> 3000,
        region |-> "Salzburg", river |-> "Kapruner Ache"] >>

\* what parse_owf_stations() returns for data/owf/messstellen_owf.csv
OwfStations ==
    << [id |-> "203000", name |-> "Mittersill", lat |-> 4745, lon |-> 1325] >>

\* the values np.random.uniform(0.3, 0.7) is let to take, in thousandths
RandomDraws == {300, 600}


---------------------------------------------------------------------------
(* quick_process.py *)

\* lon = 9.0 + (x - 100000) / 70000, in degrees
RoughLon(x) == RAdd(RInt(9), RNorm(x - 100000, 70000))

\* lat = 46.0 + (y - 100000) / 110000, in degrees
RoughLat(y) == RAdd(RInt(46), RNorm(y - 100000, 110000))

\* lo < v < hi
Between(lo, v, hi) == RLt(lo, v) /\ RLt(v, hi)

\* the station record both parsers append, lon and lat rounded to the stored
\* resolution
StationRecord(row, lon, lat) ==
    [id |-> row.id, name |-> row.name,
     lon |-> RRound(lon, 100), lat |-> RRound(lat, 100),
     area |-> row.area, body |-> row.body]

\* parse_gw_stations()
ParseGwStations ==
    LET ok == SelectSeq(GwListing, LAMBDA row :
                  /\ Between(RInt(9), RoughLon(row.x), RInt(18))
                  /\ Between(RInt(46), RoughLat(row.y), RInt(49)))
    IN  Tuple([i \in 1..Len(ok) |->
                  StationRecord(ok[i], RoughLon(ok[i].x), RoughLat(ok[i].y))])

\* load_municipalities(): name, iso and the mean of the ring's vertices
LoadMunicipalities ==
    Tuple([i \in 1..Len(Gemeinden) |->
        LET ring == Gemeinden[i].ring
        IN  [name |-> Gemeinden[i].name, iso |-> Gemeinden[i].iso,
             lon |-> RoundDiv(SeqSum([k \in 1..Len(ring) |-> ring[k][1]]), Len(ring)),
             lat |-> RoundDiv(SeqSum([k \in 1..Len(ring) |-> ring[k][2]]), Len(ring))]])

\* (dlon ** 2 + dlat ** 2), in squared hundredths of a degree
EuclidSq(a, b) ==
    (a.lon - b.lon) * (a.lon - b.lon) + (a.lat - b.lat) * (a.lat - b.lat)

\* calculate_density: the stations with dist < radius, radius in hundredths
CalculateDensity(muni, stations, radius) ==
    Cardinality({i \in DOMAIN stations : EuclidSq(muni, stations[i]) < radius * radius})

\* 'Pumpspeicher' in pp.get('type', '')
IsPumpStorage(type) == type \in {"Pumpspeicher", "Pumpspeicherkraftwerk"}

\* calculate_hydro_impact for one municipality: plants with dist < 0.15
CalculateHydroImpact(muni, plants) ==
    LET near == SelectSeq(plants, LAMBDA pp : EuclidSq(muni, pp) < 15 * 15)
        pump == SelectSeq(near, LAMBDA pp : IsPumpStorage(pp.type))
    IN  [hydro_capacity |-> SeqSum([i \in 1..Len(near) |-> near[i].mw]),
         hydro_plants |-> Len(near),
         pump_storage |-> SeqSum([i \in 1..Len(pump) |-> pump[i].mw])]

MaxOf(S) == CHOOSE x \in S : \A y \in S : y <= x

\* calculate_risk_scores: draws[i] is the random number drawn for region i
CalculateRiskScores(munis, draws) ==
    LET top_hydro == MaxOf({munis[i].hydro_capacity : i \in DOMAIN munis})
        top_pump == MaxOf({munis[i].pump_storage : i \in DOMAIN munis})
        max_hydro == IF top_hydro = 0 THEN 1 ELSE top_hydro
        max_pump == IF top_pump = 0 THEN 1 ELSE top_pump
        Scored(i) ==
            LET hydro_risk == RNorm(munis[i].hydro_capacity, max_hydro)
                pump_risk == RNorm(munis[i].pump_storage, max_pump)
                score == RRound(RAdd(RAdd(RMul(RNorm(1, 2), hydro_risk),
                                          RMul(RNorm(3, 10), pump_risk)),
                                     RMul(RNorm(1, 5), RNorm(draws[i], 1000))), 1000)
            IN  Update(munis[i],
                       [hydro_risk |-> RRound(hydro_risk, 1000),
                        pump_risk |-> RRound(pump_risk, 1000),
                        risk_score |-> score,
                        risk_category |-> CategoryAbove(score, 700, 400)])
    IN  Tuple([i \in 1..Len(munis) |-> Scored(i)])

\* the municipality records main() builds, before the risk scores
QuickMunicipalities(gw) ==
    LET loaded == LoadMunicipalities
    IN  Tuple([i \in 1..Len(loaded) |->
            Update(Update(loaded[i],
                          [gw_stations |-> CalculateDensity(loaded[i], gw, 15),
                           sw_stations |-> CalculateDensity(loaded[i], OwfStations, 15)]),
                   CalculateHydroImpact(loaded[i], Powerplants))])

\* feature['properties'].update(muni_lookup[iso]) for every feature of
\* gemeinden.geojson
EnrichByIso(features, munis) ==
    Tuple([i \in 1..Len(features) |->
        IF InLookup(munis, "iso", GetNum(features[i], "iso", ""))
        THEN Update(features[i], LookupLast(munis, "iso", features[i].iso))
        ELSE features[i]])

GemeindenProperties ==
    Tuple([i \in 1..Len(Gemeinden) |-> [name |-> Gemeinden[i].name, iso |-> Gemeinden[i].iso]])

QuickFiles ==
    {"municipalities.json", "gw_stations.json", "sw_stations.json", "powerplants.json",
     "gemeinden.geojson", "municipalities_risk.geojson"}

\* quick_process.main()
QuickProcess ==
    /\ \E draws \in [1..Len(Gemeinden) -> RandomDraws] :
       \E munis \in {QuickMunicipalities(ParseGwStations)} :
          municipalities' = CalculateRiskScores(munis, draws)
    /\ gw_stations' = ParseGwStations
    /\ geojson' = EnrichByIso(GemeindenProperties, municipalities')
    /\ files' = files \cup QuickFiles
    /\ lastRun' = [stage |-> "quick_process", ok |-> TRUE]
    /\ UNCHANGED <<gw_stations_trends, writers>>
    /\ runs' = runs + 1
    /\ UNCHANGED nearbyVars
    /\ UNCHANGED seriesVars
    /\ UNCHANGED parseVars
    /\ UNCHANGED callVars

---------------------------------------------------------------------------
(* fix_coordinates.py *)

\* transformer.transform(x, y) from EPSG:31287 to EPSG:4326, longitude: the
\* projection has its origin at 13 1/3 E, 47.5 N with false easting and
\* northing 400000 m; near the origin a degree of longitude is 75 km and a
\* degree of latitude 111 km
LambertLon(x) == RAdd(RNorm(40, 3), RNorm(x - 400000, 75000))

LambertLat(y) == RAdd(RNorm(95, 2), RNorm(y - 400000, 111000))

\* parse_gw_stations_correct()
ParseGwStationsCorrect ==
    LET ok == SelectSeq(GwListing, LAMBDA row :
                  /\ Between(RNorm(19, 2), LambertLon(row.x), RNorm(86, 5))
                  /\ Between(RNorm(232, 5), LambertLat(row.y), RInt(49)))
    IN  Tuple([i \in 1..Len(ok) |->
                  StationRecord(ok[i], LambertLon(ok[i].x), LambertLat(ok[i].y))])

HasTrend(s) == Has(s, "trend_m_per_decade")

\* the trend fields main() copies out of a record of the old trends file
TrendData(s) ==
    [station_id |-> GetNum(s, "station_id", s.id),
     trend_m_per_decade |-> s.trend_m_per_decade,
     p_value |-> GetOpt(s, "p_value"),
     change_pct |-> GetNum(s, "change_pct", 0),
     data_years |-> GetOpt(s, "data_years"),
     mean_level |-> GetOpt(s, "mean_level"),
     current_level |-> GetOpt(s, "current_level")]

\* corrected stations with the trend data of old_trends attached by id
ReattachTrends(corrected, old_trends) ==
    LET with_trend == SelectSeq(old_trends, HasTrend)
    IN  Tuple([i \in 1..Len(corrected) |->
            IF InLookup(with_trend, "id", corrected[i].id)
            THEN Update(corrected[i], TrendData(LookupLast(with_trend, "id", corrected[i].id)))
            ELSE corrected[i]])

\* fix_coordinates.main(): a missing gw_stations_trends.json is caught and
\* reported, gw_stations.json is written either way
FixCoordinates ==
    /\ gw_stations' = ParseGwStationsCorrect
    /\ files' = files \cup {"gw_stations.json"}
    /\ gw_stations_trends' =
          IF "gw_stations_trends.json" \in files
          THEN ReattachTrends(gw_stations', gw_stations_trends)
          ELSE gw_stations_trends
    /\ lastRun' = [stage |-> "fix_coordinates",
                   ok |-> "gw_stations_trends.json" \in files]
    /\ UNCHANGED <<municipalities, geojson, writers>>
    /\ runs' = runs + 1
    /\ UNCHANGED nearbyVars
    /\ UNCHANGED seriesVars
    /\ UNCHANGED parseVars
    /\ UNCHANGED callVars

---------------------------------------------------------------------------
(* analyze_trends_full.py and analyze_trends.py: merging the trend results  *)
(* into the station list and the groundwater risk into the municipalities   *)

\* one entry of the results of process_all_groundwater_trends()
TrendRecord(id, trend, mean) ==
    [station_id |-> id, trend_m_per_decade |-> trend, p_value |-> Some(120),
     data_years |-> Some(300), mean_level |-> Some(mean),
     current_level |-> Some(mean - 50)]

\* the results process_all_groundwater_trends() may return, by station id,
\* for the level files found under data/gw
TrendResults ==
    { ("G1" :> TrendRecord("G1", -3000, 75020)),
      ("G1" :> TrendRecord("G1", 1000, 75110)) @@ ("G2" :> TrendRecord("G2", -1500, 56230)) }

\* the list process_groundwater_trends() returns for the same level files
TrendLists ==
    { << Update(TrendRecord("G1", -3000, 75020), [change_pct |-> -120]) >>,
      << Update(TrendRecord("G1", 1000, 75110), [change_pct |-> 40]),
         Update(TrendRecord("G2", -1500, 56230), [change_pct |-> -80]) >> }

\* analyze_trends_full.merge_trends_with_stations(trend_results): what is
\* written to gw_stations_trends.json
MergeTrendsFull(stations, trend_results) ==
    Tuple([i \in 1..Len(stations) |->
        IF stations[i].id \in DOMAIN trend_results
        THEN Update(stations[i], trend_results[stations[i].id])
        ELSE stations[i]])

\* list({s['id']: s for s in stations}.values()): one record per id, at the
\* place of the id's first record, holding the id's last record
StationLookup(stations) ==
    LET first == SelectAt(stations, LAMBDA i :
                     \A j \in 1..(i - 1) : stations[j].id # stations[i].id)
    IN  Tuple([i \in 1..Len(first) |-> LookupLast(stations, "id", first[i].id)])

\* analyze_trends.merge_trends_with_stations(): every trend of the list is
\* merged into the record of its station id
MergeTrendsOld(stations, trends) ==
    LET lookup == StationLookup(stations)
    IN  Tuple([i \in 1..Len(lookup) |->
            IF InLookup(trends, "station_id", lookup[i].id)
            THEN Update(lookup[i], LookupLast(trends, "station_id", lookup[i].id))
            ELSE lookup[i]])

\* the trends of the stations with dist < radius, radius in hundredths of a
\* degree
NearbyTrends(muni, gw_data, radius) ==
    LET near == SelectSeq(gw_data, LAMBDA s :
                    /\ HasTrend(s)
                    /\ s.lat # 0 /\ s.lon # 0
                    /\ EuclidSq(muni, s) < radius * radius)
    IN  Tuple([i \in 1..Len(near) |-> near[i].trend_m_per_decade])

\* max(0, min(1, -avg_trend / full)), full in 1e-4 m per decade
GwRisk(avg_trend, full) ==
    RMax(RInt(0), RMin(RInt(1), RDiv(RNeg(avg_trend), RInt(full))))

\* the groundwater fields set to None for every municipality
ClearedRisk(muni, gw_data) == Update(muni, [gw_trend |-> None, gw_risk |-> None])

\* analyze_trends_full.update_municipality_risk for one municipality
UpdatedRiskFull(muni, gw_data) ==
    LET nearby_trends == NearbyTrends(muni, gw_data, 30)
        avg_trend == RNorm(SeqSum(nearby_trends), Len(nearby_trends))
        gw_risk == GwRisk(avg_trend, 3000)
        hydro_risk == GetNum(muni, "hydro_risk", 0) + GetNum(muni, "pump_risk", 0)
        score == RRound(RAdd(RMul(RNorm(2, 5), gw_risk),
                             RMul(RNorm(3, 5), RNorm(hydro_risk, 1000))), 1000)
    IN  IF nearby_trends = <<>> THEN muni
        ELSE Update(muni, [gw_trend |-> Some(RRound(avg_trend, 1)),
                           gw_risk |-> Some(RRound(gw_risk, 1000)),
                           risk_score |-> score,
                           risk_category |-> CategoryAbove(score, 700, 400)])

\* analyze_trends.update_municipality_risk for one municipality; the keys of
\* gw_by_loc are the station locations at two decimals, the stored resolution
UpdatedRiskOld(muni, gw_data) ==
    LET nearby_trends == NearbyTrends(muni, gw_data, 20)
        avg_trend == RNorm(SeqSum(nearby_trends), Len(nearby_trends))
        gw_risk == GwRisk(avg_trend, 5000)
        hydro_risk == GetNum(muni, "hydro_risk", 0)
        score == RRound(RAdd(RMul(RNorm(1, 2), gw_risk),
                             RMul(RNorm(1, 2), RNorm(hydro_risk, 1000))), 1000)
    IN  IF nearby_trends = <<>> THEN muni
        ELSE Update(muni, [gw_trend |-> Some(RRound(avg_trend, 1)),
                           gw_risk |-> Some(RRound(gw_risk, 1000)),
                           risk_score |-> score,
                           risk_category |-> CategoryAbove(score, 600, 300)])

\* for every feature whose name is in {m['name']: m}, the keys of `keys`
\* that the municipality has are copied into the properties
CopyByName(features, munis, keys) ==
    Tuple([i \in 1..Len(features) |->
        IF InLookup(munis, "name", GetNum(features[i], "name", ""))
        THEN LET m == LookupLast(munis, "name", GetNum(features[i], "name", ""))
             IN  Update(features[i], [k \in {q \in keys : Has(m, q)} |-> m[k]])
        ELSE features[i]])

\* the fields of region records that a run changed or removed: the records
\* of old and new are matched by iso
ChangedFields(old, new) ==
    {f \in UNION {DOMAIN old[i] : i \in DOMAIN old} :
        \E i \in DOMAIN old : \E j \in DOMAIN new :
            /\ old[i].iso = new[j].iso
            /\ Has(old[i], f)
            /\ (~Has(new[j], f) \/ new[j][f] # old[i][f])}

Wrote(stage, old, new) == {<<f, stage>> : f \in ChangedFields(old, new)}

\* a script that stops at an exception before it has written anything
Crash(stage) ==
    /\ lastRun' = [stage |-> stage, ok |-> FALSE]
    /\ UNCHANGED <<files, municipalities, geojson, gw_stations, gw_stations_trends, writers>>

\* analyze_trends_full.main(): merge_trends_with_stations writes the trends
\* file, update_municipality_risk then reads and rewrites municipalities.json
\* and after that municipalities_risk.geojson; each open() of a missing file
\* ends the run where it stands
AnalyzeTrendsFull ==
    /\ IF "gw_stations.json" \notin files THEN Crash("analyze_trends_full")
       ELSE LET has_muni == "municipalities.json" \in files
                has_geo == "municipalities_risk.geojson" \in files
            IN  /\ \E trend_results \in TrendResults :
                      gw_stations_trends' = MergeTrendsFull(gw_stations, trend_results)
                /\ files' = files \cup {"gw_stations_trends.json"}
                /\ municipalities' =
                      IF has_muni
                      THEN Tuple([i \in 1..Len(municipalities) |->
                                     UpdatedRiskFull(municipalities[i], gw_stations_trends')])
                      ELSE municipalities
                /\ geojson' =
                      IF has_muni /\ has_geo
                      THEN CopyByName(geojson, municipalities',
                               {"gw_trend", "gw_risk", "risk_score", "risk_category"})
                      ELSE geojson
                /\ writers' = writers \cup Wrote("analyze_trends_full",
                                                 municipalities, municipalities')
                /\ lastRun' = [stage |-> "analyze_trends_full", ok |-> has_muni /\ has_geo]
                /\ UNCHANGED gw_stations
    /\ runs' = runs + 1
    /\ UNCHANGED nearbyVars
    /\ UNCHANGED seriesVars
    /\ UNCHANGED parseVars
    /\ UNCHANGED callVars

\* analyze_trends.main()
AnalyzeTrends ==
    /\ IF "gw_stations.json" \notin files THEN Crash("analyze_trends")
       ELSE LET has_muni == "municipalities.json" \in files
                has_geo == "municipalities_risk.geojson" \in files
            IN  /\ \E trends \in TrendLists :
                      gw_stations_trends' = MergeTrendsOld(gw_stations, trends)
                /\ files' = files \cup {"gw_stations_trends.json"}
                /\ municipalities' =
                      IF has_muni
                      THEN Tuple([i \in 1..Len(municipalities) |->
                                     UpdatedRiskOld(municipalities[i], gw_stations_trends')])
                      ELSE municipalities
                /\ geojson' = IF has_muni /\ has_geo
                              THEN EnrichByIso(geojson, municipalities')
                              ELSE geojson
                /\ writers' = writers \cup Wrote("analyze_trends",
                                                 municipalities, municipalities')
                /\ lastRun' = [stage |-> "analyze_trends", ok |-> has_muni /\ has_geo]
                /\ UNCHANGED gw_stations
    /\ runs' = runs + 1
    /\ UNCHANGED nearbyVars
    /\ UNCHANGED seriesVars
    /\ UNCHANGED parseVars
    /\ UNCHANGED callVars

---------------------------------------------------------------------------
(* final_hydro_factor.py, integrate_precipitation.py, integrate_flow.py and *)
(* update_geojson.py                                                        *)

\* data/sediment_analysis.json; trend_pct in tenths of a percent
SedimentAnalysis ==
    << [station |-> "Mittersill", hzb |-> "203000", river |-> "Salzach", trend_pct |-> -200] >>

\* the rows of data/owf/messstellen_owf.csv as load_all_data() keeps them; a
\* missing coordinate is 0
OwfMeta ==
    << [id |-> "203000", name |-> "Mittersill", river |-> "Salzach",
        x |-> 421000, y |-> 314280] >>

\* data/precipitation_analysis.json; a station without coordinates has 0, 0
PrecipAnalysis ==
    << [hzb |-> "N1", lat |-> 4748, lon |-> 1328,
        trend_mm_decade |-> -300, mean_annual_mm |-> 1200],
       [hzb |-> "N2", lat |-> 4868, lon |-> 1328,
        trend_mm_decade |-> 1200, mean_annual_mm |-> 800],
       [hzb |-> "N3", lat |-> 0, lon |-> 0,
        trend_mm_decade |-> -900, mean_annual_mm |-> 1000] >>

\* data/flow_analysis.json
FlowAnalysis ==
    << [hzb |-> "F1", river |-> "Salzach", lat |-> 4748, lon |-> 1328,
        trend_pct_decade |-> -100, mean_flow_m3s |-> 1500],
       [hzb |-> "F2", river |-> "Kapruner Ache", lat |-> 4748, lon |-> 1328,
        trend_pct_decade |-> -50, mean_flow_m3s |-> 60],
       [hzb |-> "F3", river |-> "Saalach", lat |-> 4748, lon |-> 1328,
        trend_pct_decade |-> 20, mean_flow_m3s |-> 300],
       [hzb |-> "F4", river |-> "Fuscher Ache", lat |-> 4748, lon |-> 1328,
        trend_pct_decade |-> -150, mean_flow_m3s |-> 40],
       [hzb |-> "F5", river |-> "Mur", lat |-> 4749, lon |-> 1328,
        trend_pct_decade |-> 30, mean_flow_m3s |-> 900] >>

\* [s for s in stations if s.get('lat') and s.get('lon')]
WithCoordinates(stations) == SelectSeq(stations, LAMBDA s : s.lat # 0 /\ s.lon # 0)

\* rows.sort(key=Key, reverse=True): descending, rows of one key in their order
SortDesc(rows, Key(_)) ==
    SortedBy(rows, LAMBDA j, i :
        Key(rows[j]) > Key(rows[i]) \/ (Key(rows[j]) = Key(rows[i]) /\ j < i))

\* impact_weights.get(type, 0.4), in tenths
ImpactWeight(type) ==
    CASE type = "Laufkraftwerk" -> 3
      [] type = "Speicherkraftwerk" -> 7
      [] type = "Pumpspeicherkraftwerk" -> 5
      [] OTHER -> 4

\* calculate_factor, part 1: mw * weight * decay over the plants within 30 km
HydroImpact(m, plants) ==
    LET near == SelectSeq(plants, LAMBDA p :
                    Haversine(m.lat, m.lon, p.lat, p.lon) <= 100 * 30)
    IN  RSeqSum([i \in 1..Len(near) |->
            RMul(RNorm(near[i].mw * ImpactWeight(near[i].type), 100),
                 RMax(RInt(0),
                      RSub(RInt(1),
                           RNorm(Haversine(m.lat, m.lon, near[i].lat, near[i].lon), 3000))))])

\* the distance to the OWF row of sediment station s: the first row with the
\* station's id and coordinates, placed by lat = 46 + (y - 150000) / 111000
\* and lon = 9 + (x - 100000) / 75000; -1 when there is no such row
SedimentDist(m, s, owf_meta) ==
    LET rows == SelectSeq(owf_meta, LAMBDA o : o.id = s.hzb /\ o.x # 0 /\ o.y # 0)
    IN  IF rows = <<>> THEN -1
        ELSE Haversine(m.lat, m.lon,
                 RRound(RAdd(RInt(46), RNorm(rows[1].y - 150000, 111000)), 100),
                 RRound(RAdd(RInt(9), RNorm(rows[1].x - 100000, 75000)), 100))

\* calculate_factor, part 2: max(0, -trend_pct / 100) * (1 - dist / 50) over
\* the sediment stations within 50 km
SedFactor(m, sediment, owf_meta) ==
    LET near == SelectSeq(sediment, LAMBDA s :
                    /\ SedimentDist(m, s, owf_meta) >= 0
                    /\ SedimentDist(m, s, owf_meta) <= 100 * 50)
    IN  RSeqSum([i \in 1..Len(near) |->
            RMul(RMax(RInt(0), RNorm(-near[i].trend_pct, 1000)),
                 RSub(RInt(1), RNorm(SedimentDist(m, near[i], owf_meta), 5000)))])

\* calculate_factor(m, plants, sediment, owf_meta) merged into m
WithHydroFactor(m) ==
    LET hydro_impact == HydroImpact(m, Powerplants)
        sed_factor == SedFactor(m, SedimentAnalysis, OwfMeta)
        base_factor == RMin(RInt(1), RDiv(hydro_impact, RInt(500)))
        final_factor == RMin(RInt(1),
                             RMul(base_factor, RAdd(RInt(1), RMul(sed_factor, RNorm(1, 5)))))
    IN  Update(m, [hydro_factor |-> Some(RRound(final_factor, 1000)),
                   hydro_impact_score |-> RRound(hydro_impact, 10),
                   sediment_modifier |-> RRound(sed_factor, 1000)])

\* final_hydro_factor.main()
FinalHydroFactor ==
    /\ IF {"municipalities.json", "powerplants.json"} \subseteq files
       THEN /\ \E results \in {Tuple([i \in 1..Len(municipalities) |->
                                         WithHydroFactor(municipalities[i])])} :
                  municipalities' = SortDesc(results, LAMBDA r : r.hydro_factor[1])
            /\ writers' = writers \cup Wrote("final_hydro_factor",
                                             municipalities, municipalities')
            /\ lastRun' = [stage |-> "final_hydro_factor", ok |-> TRUE]
            /\ UNCHANGED <<files, geojson, gw_stations, gw_stations_trends>>
       ELSE Crash("final_hydro_factor")
    /\ runs' = runs + 1
    /\ UNCHANGED nearbyVars
    /\ UNCHANGED seriesVars
    /\ UNCHANGED parseVars
    /\ UNCHANGED callVars

\* max(-limit, min(limit, trend))
Clamp(trend, limit) == RMax(RInt(-limit), RMin(RInt(limit), trend))

\* (limit - trend) / (2 * limit) of the trend as it is, not clamped
TrendRiskUnclamped(summary, limit) ==
    IF ~summary.has THEN None
    ELSE Some(RRound(RDiv(RSub(RInt(limit), summary.trend), RInt(2 * limit)), 1000))

\* calculate_precip_risk(trend_mm, mean_mm) and calculate_flow_risk(trend_pct)
\* for a summary: (limit - clamped) / (2 * limit), None without a trend
TrendRisk(summary, limit) ==
    IF ~summary.has THEN None
    ELSE Some(RRound(RDiv(RSub(RInt(limit), Clamp(summary.trend, limit)),
                          RInt(2 * limit)), 1000))

\* round(x, digits) if x else None, x the trend or the mean of a summary
RoundedOrNone(summary, x, scale) ==
    IF summary.has /\ x[1] # 0 THEN Some(RRound(x, scale)) ELSE None

\* integrate_precipitation.recalculate_risk_score(muni): the unrounded score
\* in units of 1e-5
PrecipRawScore(muni) ==
    40 * GetOr(muni, "gw_risk", 0) + 30 * GetOr(muni, "hydro_factor", 0)
        + 30 * GetOr(muni, "precip_risk", 500)

\* integrate_flow.recalculate_risk_score(muni): the unrounded score in units
\* of 1e-5
FlowRawScore(muni) ==
    35 * GetOr(muni, "gw_risk", 0) + 25 * GetOr(muni, "hydro_factor", 0)
        + 25 * GetOr(muni, "precip_risk", 500) + 15 * GetOr(muni, "flow_risk", 500)

\* the score rounded to three decimals and the category of the unrounded score
Recalculated(muni, raw) ==
    Update(muni, [risk_score |-> RoundDiv(raw, 100),
                  risk_category |-> CategoryFrom(raw, 60000, 40000)])

\* the body of integrate_precipitation.main()'s loop for one municipality
WithPrecip(m, precip) ==
    LET summary == FindNearbyPrecip(m, precip, MaxDistKm)
        updated == Update(m, [precip_trend_mm |-> RoundedOrNone(summary, summary.trend, 1),
                              precip_mean_mm |-> RoundedOrNone(summary, summary.mean, 1),
                              precip_stations |-> summary.count,
                              precip_estimated |-> summary.estimated,
                              precip_risk |-> TrendRisk(summary, 1000)])
    IN  Recalculated(updated, PrecipRawScore(updated))

\* integrate_precipitation.main()
IntegratePrecipitation ==
    /\ IF "municipalities.json" \in files
       THEN /\ \E precip \in {WithCoordinates(PrecipAnalysis)} :
               \E results \in {Tuple([i \in 1..Len(municipalities) |->
                                         WithPrecip(municipalities[i], precip)])} :
                  municipalities' = SortDesc(results, LAMBDA r : r.risk_score)
            /\ writers' = writers \cup Wrote("integrate_precipitation",
                                             municipalities, municipalities')
            /\ lastRun' = [stage |-> "integrate_precipitation", ok |-> TRUE]
            /\ UNCHANGED <<files, geojson, gw_stations, gw_stations_trends>>
       ELSE Crash("integrate_precipitation")
    /\ runs' = runs + 1
    /\ UNCHANGED nearbyVars
    /\ UNCHANGED seriesVars
    /\ UNCHANGED parseVars
    /\ UNCHANGED callVars

\* check_hydro_influence(muni, plants, flow_rivers): mw of the plants within
\* 50 km on one of the rivers
CheckHydroInfluence(muni, plants, flow_rivers) ==
    LET on == SelectSeq(plants, LAMBDA p :
                  /\ Haversine(muni.lat, muni.lon, p.lat, p.lon) <= 100 * 50
                  /\ p.river \in flow_rivers)
    IN  SeqSum([i \in 1..Len(on) |-> on[i].mw])

\* check_sediment_correlation(flow_rivers, sediment_data): the mean trend_pct
\* of the sediment stations on the rivers, rounded to a tenth; None without
\* such a station and for a mean of 0
CheckSedimentCorrelation(flow_rivers, sediment_data) ==
    LET matching == SelectSeq(sediment_data, LAMBDA s : s.river \in flow_rivers)
        total == SeqSum([i \in 1..Len(matching) |-> matching[i].trend_pct])
    IN  IF matching = <<>> \/ total = 0 THEN None
        ELSE Some(RRound(RNorm(total, Len(matching)), 1))

\* the body of integrate_flow.main()'s loop for one municipality, `kept`
\* being the rivers find_nearby_flow returned
WithFlow(m, flow, kept) ==
    LET summary == FindNearbyFlow(m, flow, MaxDistKm, kept)
        rivers == summary.rivers
        updated ==
            Update(m, [flow_trend_pct |-> RoundedOrNone(summary, summary.trend, 1),
                       flow_mean_m3s |-> RoundedOrNone(summary, summary.mean, 1),
                       flow_stations |-> summary.count,
                       flow_rivers |-> rivers,
                       flow_estimated |-> summary.estimated,
                       flow_risk |-> TrendRisk(summary, 200),
                       flow_hydro_mw |-> IF rivers # {}
                                         THEN CheckHydroInfluence(m, Powerplants, rivers)
                                         ELSE 0,
                       flow_sediment_trend |-> IF rivers # {}
                                               THEN CheckSedimentCorrelation(rivers, SedimentAnalysis)
                                               ELSE None])
    IN  Recalculated(updated, FlowRawScore(updated))

\* the lists of river sets find_nearby_flow may return for the municipalities
\* of munis, one set for each
RECURSIVE KeptChoices(_, _)
KeptChoices(munis, flow) ==
    IF munis = <<>> THEN {<<>>}
    ELSE {<<k>> \o rest : k \in FlowRiverChoices(munis[1], flow, MaxDistKm),
                          rest \in KeptChoices(Tail(munis), flow)}

\* integrate_flow.main()
IntegrateFlow ==
    /\ IF {"municipalities.json", "powerplants.json"} \subseteq files
       THEN /\ \E flow \in {WithCoordinates(FlowAnalysis)} :
               \E kept \in KeptChoices(municipalities, flow) :
               \E results \in {Tuple([i \in 1..Len(municipalities) |->
                                         WithFlow(municipalities[i], flow, kept[i])])} :
                  municipalities' = SortDesc(results, LAMBDA r : r.risk_score)
            /\ writers' = writers \cup Wrote("integrate_flow",
                                             municipalities, municipalities')
            /\ lastRun' = [stage |-> "integrate_flow", ok |-> TRUE]
            /\ UNCHANGED <<files, geojson, gw_stations, gw_stations_trends>>
       ELSE Crash("integrate_flow")
    /\ runs' = runs + 1
    /\ UNCHANGED nearbyVars
    /\ UNCHANGED seriesVars
    /\ UNCHANGED parseVars
    /\ UNCHANGED callVars

\* the properties update_geojson.main() sets from m.get(key)
GeojsonKeys ==
    {"gw_trend", "gw_risk", "hydro_factor", "precip_risk", "precip_trend_mm",
     "flow_risk", "flow_trend_pct"}

\* update_geojson.main() for the properties of one feature
UpdatedFeature(props, munis) ==
    IF Has(props, "name") /\ props.name # "" /\ InLookup(munis, "name", props.name)
    THEN LET m == LookupLast(munis, "name", props.name)
         IN  Update(props,
                    [risk_score |-> GetNum(m, "risk_score", 0),
                     risk_category |-> GetNum(m, "risk_category", "low")]
                    @@ [k \in GeojsonKeys |-> GetOpt(m, k)])
    ELSE props

\* update_geojson.main()
UpdateGeojson ==
    /\ IF {"municipalities.json", "municipalities_risk.geojson"} \subseteq files
       THEN /\ geojson' = Tuple([i \in 1..Len(geojson) |->
                                    UpdatedFeature(geojson[i], municipalities)])
            /\ lastRun' = [stage |-> "update_geojson", ok |-> TRUE]
            /\ UNCHANGED <<files, municipalities, gw_stations, gw_stations_trends, writers>>
       ELSE Crash("update_geojson")
    /\ runs' = runs + 1
    /\ UNCHANGED nearbyVars
    /\ UNCHANGED seriesVars
    /\ UNCHANGED parseVars
    /\ UNCHANGED callVars

---------------------------------------------------------------------------
(* The pipeline: any script may be run at any time *)

Init ==
    /\ EmptyStore
    /\ NoFile
    /\ NoCall
    /\ nbFlow = <<>> /\ nbPrecip = <<>>
    /\ nbOut = [fn |-> "none", res |-> NoSummaryFlow]
    /\ gwSeries = <<>> /\ gwOut = [fn |-> "none"]
    /\ dayValues = <<>> /\ dayOut = [fn |-> "none"]

\* the number of script runs followed
MaxRuns == 3

Next ==
    \/ runs < MaxRuns /\ QuickProcess
    \/ runs < MaxRuns /\ FixCoordinates
    \/ runs < MaxRuns /\ AnalyzeTrends
    \/ runs < MaxRuns /\ AnalyzeTrendsFull
    \/ runs < MaxRuns /\ FinalHydroFactor
    \/ runs < MaxRuns /\ IntegratePrecipitation
    \/ runs < MaxRuns /\ IntegrateFlow
    \/ runs < MaxRuns /\ UpdateGeojson

Spec == Init /\ [][Next]_vars

---------------------------------------------------------------------------
(* The station files alone: the scripts that write gw_stations.json and     *)
(* gw_stations_trends.json, followed for more runs                          *)

MaxStationRuns == 4

StationNext ==
    \/ runs < MaxStationRuns /\ QuickProcess
    \/ runs < MaxStationRuns /\ FixCoordinates
    \/ runs < MaxStationRuns /\ AnalyzeTrends
    \/ runs < MaxStationRuns /\ AnalyzeTrendsFull

SpecStations == Init /\ [][StationNext]_vars

---------------------------------------------------------------------------
(* Properties of the pipeline *)

\* the script `stage` has run to its end twice in a row
RanTwice(stage) ==
    /\ lastRun = [stage |-> stage, ok |-> TRUE]
    /\ lastRun' = [stage |-> stage, ok |-> TRUE]

\* C3 as stated: a second run of integrate_flow, integrate_precipitation or
\* update_geojson right after the first leaves municipalities.json and
\* municipalities_risk.geojson with the same records and field values, the
\* order of the records aside.
C3_AsStated ==
    [][\A stage \in {"integrate_flow", "integrate_precipitation", "update_geojson"} :
          RanTwice(stage) =>
              /\ Range(municipalities') = Range(municipalities)
              /\ Range(geojson') = Range(geojson)]_vars

\* x is in [0, 1], x in thousandths
InUnitRange(x) == 0 <= x /\ x <= 1000

\* every per-variable risk stored in m is in [0, 1]
RisksInRange(m) ==
    /\ \A k \in {"hydro_risk", "pump_risk"} : Has(m, k) => InUnitRange(m[k])
    /\ \A k \in {"gw_risk", "hydro_factor", "precip_risk", "flow_risk"} :
          (Has(m, k) /\ m[k] # None) => InUnitRange(m[k][1])

\* C4 as stated: whatever scripts have run, a region whose stored per-variable
\* risks are all in [0, 1] has its stored risk_score in [0, 1].
C4_AsStated ==
    \A i \in DOMAIN municipalities :
        RisksInRange(municipalities[i]) => InUnitRange(municipalities[i].risk_score)

\* the stage that ran last, to its end
JustRan(stage) == lastRun = [stage |-> stage, ok |-> TRUE]

\* C5 as stated: the category every composition stage stores is 'high' for a
\* score at or above the stage's high threshold, 'medium' for a score at or
\* above its medium threshold, and 'low' below; for the two trend scripts the
\* regions scored are those with a trend-bearing station in the radius.
C5_AsStated ==
    \A i \in DOMAIN municipalities :
        LET m == municipalities[i]
        IN  /\ JustRan("quick_process") =>
                  m.risk_category = CategoryFrom(m.risk_score, 700, 400)
            /\ (JustRan("analyze_trends_full")
                  /\ NearbyTrends(m, gw_stations_trends, 30) # <<>>) =>
                  m.risk_category = CategoryFrom(m.risk_score, 700, 400)
            /\ (JustRan("analyze_trends")
                  /\ NearbyTrends(m, gw_stations_trends, 20) # <<>>) =>
                  m.risk_category = CategoryFrom(m.risk_score, 600, 300)
            /\ JustRan("integrate_precipitation") =>
                  m.risk_category = CategoryFrom(PrecipRawScore(m), 60000, 40000)
            /\ JustRan("integrate_flow") =>
                  m.risk_category = CategoryFrom(FlowRawScore(m), 60000, 40000)

\* the trend fields fix_coordinates is to carry over
TrendFields ==
    {"trend_m_per_decade", "p_value", "data_years", "mean_level", "current_level"}

\* stations holds a record of s's id with the trend fields of s
KeepsTrend(s, stations) ==
    \E j \in DOMAIN stations :
        /\ stations[j].id = s.id
        /\ \A k \in TrendFields : Has(s, k) => (Has(stations[j], k) /\ stations[j][k] = s[k])

\* C7 as stated: every station with a trend in gw_stations_trends.json before
\* a fix_coordinates run has a record with the same trend fields after it.
C7_AsStated ==
    [][lastRun'.stage = "fix_coordinates" =>
          \A i \in DOMAIN gw_stations_trends :
              HasTrend(gw_stations_trends[i]) =>
                  KeepsTrend(gw_stations_trends[i], gw_stations_trends')]_vars

IdentityFields == {"id", "name", "lat", "lon", "area", "body"}

StationIds(stations) == {stations[i].id : i \in DOMAIN stations}

\* every id of before that is in after has the same identity and location
SameIdentity(before, after) ==
    \A i \in DOMAIN before : \A j \in DOMAIN after :
        before[i].id = after[j].id =>
            \A k \in IdentityFields : before[i][k] = after[j][k]

\* a run of a trend script that rewrote an existing gw_stations_trends.json
MergeRerun ==
    /\ lastRun'.stage \in {"analyze_trends", "analyze_trends_full"}
    /\ "gw_stations_trends.json" \in files
    /\ "gw_stations.json" \in files

\* C8 as stated, its frame: a re-run of the trend merge leaves the set of
\* station records of gw_stations_trends.json unchanged and every station's
\* id, name, lat, lon, area and body as they were.
C8_AsStated ==
    [][MergeRerun =>
          /\ StationIds(gw_stations_trends') = StationIds(gw_stations_trends)
          /\ SameIdentity(gw_stations_trends, gw_stations_trends')]_vars

\* the stages C9 names; update_municipality_risk is what analyze_trends_full
\* runs on municipalities.json
OwningStages ==
    {"final_hydro_factor", "integrate_precipitation", "integrate_flow", "analyze_trends_full"}

\* C9 as stated: every field of a region record has one owner, and a run
\* changes only fields its stage owns; so no field of a stored region record
\* has had its value changed by two of the stages.
C9_AsStated ==
    \A f \in {w[1] : w \in writers} :
        Cardinality({w[2] : w \in {v \in writers : v[1] = f /\ v[2] \in OwningStages}}) <= 1

\* every id of before that is in after is at the same lat, lon
SameLocation(before, after) ==
    \A i \in DOMAIN before : \A j \in DOMAIN after :
        before[i].id = after[j].id =>
            (before[i].lat = after[j].lat /\ before[i].lon = after[j].lon)

\* C10 as stated: in runs of quick_process, fix_coordinates and the trend
\* scripts, the stored location of a station changes only in a
\* fix_coordinates run.
C10_AsStated ==
    [][lastRun'.stage # "fix_coordinates" =>
          /\ SameLocation(gw_stations, gw_stations')
          /\ SameLocation(gw_stations_trends, gw_stations_trends')]_vars

---------------------------------------------------------------------------
(* The coordinate pass and the trend merge in either order *)

\* gw_stations_trends.json after fix_coordinates.main() and then
\* merge_trends_with_stations(trend_results): the pass has rewritten
\* gw_stations.json, the merge builds the trends file from it
FixThenMerge(trend_results) ==
    MergeTrendsFull(ParseGwStationsCorrect, trend_results)

\* gw_stations_trends.json after merge_trends_with_stations(trend_results)
\* and then fix_coordinates.main(): the merge builds the trends file from the
\* stored gw_stations.json, the pass re-attaches its trends to the corrected
\* stations
MergeThenFix(trend_results) ==
    ReattachTrends(ParseGwStationsCorrect, MergeTrendsFull(gw_stations, trend_results))

\* C11 as stated: from any stored state in which the merge can run, the
\* coordinate pass followed by the merge and the merge followed by the
\* coordinate pass, with the same trend results, end with the same station
\* records in gw_stations_trends.json.
C11_AsStated ==
    "gw_stations.json" \in files =>
        \A trend_results \in TrendResults :
            Range(FixThenMerge(trend_results)) = Range(MergeThenFix(trend_results))

---------------------------------------------------------------------------
(* The loop body of integrate_flow.main() and integrate_precipitation.main() *)
(* on its own: one municipality and every list of up to MaxLoaded stations   *)
(* as the analysis files may hold them, with and without coordinates.        *)

MaxLoaded == 2

\* the municipality the loop body is run for
LoopMuni == [name |-> "Kaprun", iso |-> "50606", lat |-> 4748, lon |-> 1328]

\* where a station may be: at the municipality, 30.75 km east of it, or
\* without coordinates (lat and lon 0)
LoadedPlaces == {<<4748, 1328>>, <<4748, 1369>>, <<0, 0>>}

\* the trends a station may bear, in tenths of a percent per decade; the
\* precipitation trends are five times these, in tenths of a millimetre
LoadedTrends == {-250, -200, -100, 0, 100, 200, 250}

LoadedFlowStation(i, place, trend) ==
    [hzb |-> i, river |-> NbRivers[((i - 1) % Len(NbRivers)) + 1],
     lat |-> place[1], lon |-> place[2],
     trend_pct_decade |-> trend, mean_flow_m3s |-> 1000 * i]

LoadedPrecipStation(i, place, trend) ==
    [hzb |-> i, river |-> "", lat |-> place[1], lon |-> place[2],
     trend_mm_decade |-> 5 * trend, mean_annual_mm |-> 900 + 100 * i]

LoopInit ==
    \E drawn \in SeqsUpTo(LoadedPlaces \X LoadedTrends, MaxLoaded) :
        /\ nbFlow = [i \in 1..Len(drawn) |->
                        LoadedFlowStation(i, drawn[i][1], drawn[i][2])]
        /\ nbPrecip = [i \in 1..Len(drawn) |->
                          LoadedPrecipStation(i, drawn[i][1], drawn[i][2])]
        /\ nbOut = [fn |-> "none", res |-> NoSummaryFlow]
        /\ gwSeries = <<>> /\ gwOut = [fn |-> "none"]
        /\ dayValues = <<>> /\ dayOut = [fn |-> "none"]
        /\ EmptyStore
        /\ NoFile
        /\ NoCall

\* integrate_flow: load_data() keeps the stations with coordinates, main()
\* runs its loop body for the municipality; res is what find_nearby_flow
\* returned and stored the record appended to results
FlowLoopBody ==
    /\ nbOut.fn = "none"
    /\ \E flow \in {WithCoordinates(nbFlow)} :
       \E kept \in FlowRiverChoices(LoopMuni, flow, MaxDistKm) :
          nbOut' = [fn |-> "integrate_flow",
                    res |-> FindNearbyFlow(LoopMuni, flow, MaxDistKm, kept),
                    stored |-> WithFlow(LoopMuni, flow, kept)]
    /\ UNCHANGED <<nbFlow, nbPrecip>>
    /\ UNCHANGED seriesVars
    /\ UNCHANGED parseVars
    /\ UNCHANGED callVars
    /\ UNCHANGED storeVars

\* integrate_precipitation: the same for find_nearby_precip
PrecipLoopBody ==
    /\ nbOut.fn = "none"
    /\ \E precip \in {WithCoordinates(nbPrecip)} :
          nbOut' = [fn |-> "integrate_precipitation",
                    res |-> FindNearbyPrecip(LoopMuni, precip, MaxDistKm),
                    stored |-> WithPrecip(LoopMuni, precip)]
    /\ UNCHANGED <<nbFlow, nbPrecip>>
    /\ UNCHANGED seriesVars
    /\ UNCHANGED parseVars
    /\ UNCHANGED callVars
    /\ UNCHANGED storeVars

LoopNext == FlowLoopBody \/ PrecipLoopBody

SpecLoop == LoopInit /\ [][LoopNext]_vars

\* the stored trend, mean and risk of the variable the body was run for
StoredTrend ==
    IF nbOut.fn = "integrate_flow"
    THEN nbOut.stored.flow_trend_pct ELSE nbOut.stored.precip_trend_mm

StoredMean ==
    IF nbOut.fn = "integrate_flow"
    THEN nbOut.stored.flow_mean_m3s ELSE nbOut.stored.precip_mean_mm

StoredRisk ==
    IF nbOut.fn = "integrate_flow"
    THEN nbOut.stored.flow_risk ELSE nbOut.stored.precip_risk

\* C12: when the analysis file holds no station with coordinates,
\* find_nearby_flow / find_nearby_precip return no trend and no mean, and
\* the loop body stores the trend, the mean and the risk of the variable as
\* None, with 0 contributing stations.
C12_AbsentNotZero ==
    (nbOut.fn # "none" /\ WithCoordinates(nbFlow) = <<>>) =>
        /\ ~nbOut.res.has
        /\ nbOut.res.count = 0
        /\ StoredTrend = None
        /\ StoredMean = None
        /\ StoredRisk = None

\* the file holds stations, none of them with coordinates, and the loop body
\* of integrate_flow has stored no flow risk
C12_Witness ==
    /\ nbOut.fn = "integrate_flow"
    /\ nbFlow # <<>>
    /\ WithCoordinates(nbFlow) = <<>>
    /\ nbOut.stored.flow_risk = None
    /\ nbOut.stored.flow_stations = 0

---------------------------------------------------------------------------
(* The composite score of recalculate_risk_score *)

\* the region record holds a risk under k
Present(m, k) == Has(m, k) /\ m[k] # None

\* the stored risk of a variable, the neutral 0.5 for a variable without one
OrNeutral(m, k) == IF Present(m, k) THEN m[k][1] ELSE 500

\* C13 as stated: the score recalculate_risk_score stores is the weighted sum
\* of the stored risks of the variables, every variable without a stored
\* risk entering with 0.5: groundwater, hydropower and precipitation in
\* integrate_precipitation, these and the flow in integrate_flow.
C13_AsStated ==
    \A i \in DOMAIN municipalities :
        LET m == municipalities[i]
        IN  /\ JustRan("integrate_precipitation") =>
                  m.risk_score =
                      RoundDiv(40 * OrNeutral(m, "gw_risk") + 30 * OrNeutral(m, "hydro_factor")
                                   + 30 * OrNeutral(m, "precip_risk"), 100)
            /\ JustRan("integrate_flow") =>
                  m.risk_score =
                      RoundDiv(35 * OrNeutral(m, "gw_risk") + 25 * OrNeutral(m, "hydro_factor")
                                   + 25 * OrNeutral(m, "precip_risk")
                                   + 15 * OrNeutral(m, "flow_risk"), 100)

---------------------------------------------------------------------------
(* The risk of a variable from its aggregated trend *)

\* the limit L of the variable the loop body was run for, in tenths: 20 % per
\* decade for the flow, 100 mm per decade for the precipitation
LimitOfRun == IF nbOut.fn = "integrate_flow" THEN 200 ELSE 1000

\* the trends the comparison is made with, in the unit of the variable
ComparedTrends ==
    IF nbOut.fn = "integrate_flow" THEN LoadedTrends ELSE {5 * t : t \in LoadedTrends}

\* t brought into [-limit, limit]
ClampedTo(t, limit) ==
    IF RLe(t, RInt(-limit)) THEN RInt(-limit)
    ELSE IF RLe(RInt(limit), t) THEN RInt(limit) ELSE t

\* C14: for an aggregated trend t the stored risk is (L - clamp(t, -L, L)) /
\* (2L) at three decimals: it is in [0, 1], 1 for t <= -L, 0 for t >= L, 0.5
\* for t = 0, and no trend above t has a higher risk, none below t a lower.
C14_RiskTransform ==
    (nbOut.fn # "none" /\ nbOut.res.has) =>
        LET t == nbOut.res.trend
            L == LimitOfRun
        IN  /\ StoredRisk # None
            /\ StoredRisk[1] \in 0..1000
            /\ StoredRisk[1] =
                  RRound(RDiv(RSub(RInt(L), ClampedTo(t, L)), RInt(2 * L)), 1000)
            /\ RLe(t, RInt(-L)) => StoredRisk[1] = 1000
            /\ RLe(RInt(L), t) => StoredRisk[1] = 0
            /\ t = RInt(0) => StoredRisk[1] = 500
            /\ \A u \in ComparedTrends :
                  LET risk_u == TrendRisk([has |-> TRUE, trend |-> RInt(u)], L)[1]
                  IN  /\ RLe(t, RInt(u)) => risk_u <= StoredRisk[1]
                      /\ RLe(RInt(u), t) => risk_u >= StoredRisk[1]

\* an aggregated flow trend below -20 % per decade, of two stations, is
\* stored with the risk 1
C14_Witness ==
    /\ nbOut.fn = "integrate_flow"
    /\ nbOut.res.has
    /\ nbOut.res.count = 2
    /\ RLt(nbOut.res.trend, RInt(-200))
    /\ nbOut.stored.flow_risk = Some(1000)

---------------------------------------------------------------------------
(* The aggregated trend and mean of find_nearby_flow / find_nearby_precip *)

\* the trend and the magnitude of station i of the list the function was
\* called with, in the units of the list
NbTrendOf(i) ==
    IF nbOut.fn = "find_nearby_flow"
    THEN nbFlow[i].trend_pct_decade ELSE nbPrecip[i].trend_mm_decade

NbMagnitudeOf(i) ==
    IF nbOut.fn = "find_nearby_flow"
    THEN nbFlow[i].mean_flow_m3s ELSE nbPrecip[i].mean_annual_mm

\* 1 / (1 + distance_km) for station i, its distance being NbDist(i) / 100 km
NbWeight(i) == RNorm(100, 100 + NbDist(i))

\* the sum of the weights of the contributing stations, and the sum of
\* their weighted values
NbWeightSum(ids) == RSeqSum([a \in 1..Len(ids) |-> NbWeight(ids[a])])

NbWeightedSum(ids, Value(_)) ==
    RSeqSum([a \in 1..Len(ids) |-> RMul(RInt(Value(ids[a])), NbWeight(ids[a]))])

\* C15: the trend and the magnitude find_nearby_flow / find_nearby_precip
\* return are sum(value_i * w_i) / sum(w_i) over the contributing stations
\* with w_i = 1 / (1 + distance_km); stations at 5, 40 and 61 km weigh 1/6,
\* 1/41 and 1/62.
C15_WeightedMean ==
    /\ IDWeight(500) = <<1, 6>> /\ IDWeight(4000) = <<1, 41>> /\ IDWeight(6100) = <<1, 62>>
    /\ (nbOut.fn # "none" /\ nbOut.res.has) =>
          LET ids == nbOut.res.ids
          IN  /\ RMul(nbOut.res.trend, NbWeightSum(ids)) = NbWeightedSum(ids, NbTrendOf)
              /\ RMul(nbOut.res.mean, NbWeightSum(ids)) = NbWeightedSum(ids, NbMagnitudeOf)

\* the three nearest stations stand in for a municipality without a station
\* in the radius, two of them further away than the third, and the trend
\* returned is not the plain mean of the three
C15_Witness ==
    /\ nbOut.fn = "find_nearby_flow"
    /\ nbOut.res.estimated
    /\ Len(nbOut.res.ids) = 3
    /\ \E a, b \in 1..3 : NbDist(nbOut.res.ids[a]) < NbDist(nbOut.res.ids[b])
    /\ RMul(nbOut.res.trend, RInt(3)) #
          RInt(SeqSum([a \in 1..3 |-> NbTrendOf(nbOut.res.ids[a])]))

---------------------------------------------------------------------------
(* The station-file parsers: analyze_flow.parse_flow_file,                  *)
(* analyze_precipitation.parse_precip_file, process_data.parse_ehyd_csv and *)
(* analyze_trends_full.parse_ehyd_monthly.  A file is the list of its       *)
(* lines, a line the list of its fields as line.split(';') gives them, and  *)
(* a field [k, v]: k tells what text the field holds, v is its number.      *)

Field(k, v) == [k |-> k, v |-> v]

\* '01.0d.2000 00:00:00': a date and time that strptime and to_datetime read
DateTime(d) == Field("datetime", d)

\* '32.13.2000 00:00:00': it matches \d{2}\.\d{2}\.\d{4} and is no date
BadDate == Field("baddate", 0)

\* a decimal number, '-5', '0', '7'
Num(v) == Field("num", v)

\* the gap marker 'Lücke'
Gap == Field("gap", 0)

\* letters that are no number and hold no digit, '.', or '-'
Text == Field("text", 0)

\* nothing between two separators, or a line of white space
Empty == Field("empty", 0)

\* the first field of a header line
Label(s) == Field(s, 0)

\* the lines a file is made of
FileLineChoices ==
    { <<Label("Messstelle:"), Text>>, <<Label("Messstelle:")>>, <<Label("Werte:")>>,
      <<DateTime(1), Num(-5)>>, <<DateTime(1), Num(0)>>, <<DateTime(1), Num(7)>>,
      <<DateTime(2), Num(7)>>,
      <<DateTime(1), Gap>>, <<BadDate, Num(7)>>, <<DateTime(1), Text>>, <<Empty>> }

MaxLines == 3

\* not line.strip()
IsBlank(line) == line = <<Empty>>

\* line.startswith(label)
StartsWith(line, label) == line[1].k = label

\* 'Lücke' in line, 'cke' in line.lower()
HasGap(line) == \E i \in DOMAIN line : line[i].k = "gap"

\* re.match(r'(\d{2}\.\d{2}\.\d{4})', text)
DateLike(field) == field.k \in {"datetime", "baddate"}

\* the lines from the one after the first 'Werte:' line on, every line of a
\* file without such a line (data_start stays 0)
AfterWerte(lines) ==
    LET werte == {i \in DOMAIN lines : StartsWith(lines[i], "Werte:")}
    IN  IF werte = {} THEN lines
        ELSE SubSeq(lines, (CHOOSE i \in werte : \A j \in werte : i <= j) + 1, Len(lines))

\* the header loop of parse_flow_file and parse_precip_file raises
\* IndexError: line.split(';')[1] of a 'Messstelle:' or 'HZB-Nummer:' line
\* without a separator, met before the loop breaks at 'Werte:'
HeaderRaises(lines) ==
    \E i \in DOMAIN lines :
        /\ \A j \in 1..(i - 1) : ~StartsWith(lines[j], "Werte:")
        /\ StartsWith(lines[i], "Messstelle:") \/ StartsWith(lines[i], "HZB-Nummer:")
        /\ Len(lines[i]) < 2

\* the rows <<date, value>> of the lines of `section` that Reads accepts
RowsOf(section, Reads(_)) ==
    LET kept == SelectSeq(section, Reads)
    IN  [i \in 1..Len(kept) |-> <<kept[i][1].v, kept[i][2].v>>]

\* the try block of the value loop of parse_precip_file appends the line
PrecipReads(line) ==
    /\ Len(line) >= 2 /\ line[1].k # "empty"
    /\ line[1].k = "datetime"
    /\ line[2].k = "num"

\* that of parse_flow_file: if val >= 0
FlowReads(line) == PrecipReads(line) /\ line[2].v >= 0

\* parse_flow_file(filepath)
ParseFlowFile(lines) ==
    IF HeaderRaises(lines) THEN [raised |-> TRUE, rows |-> <<>>, returned |-> FALSE]
    ELSE [raised |-> FALSE, rows |-> RowsOf(AfterWerte(lines), FlowReads),
          returned |-> TRUE]

\* parse_precip_file(filepath)
ParsePrecipFile(lines) ==
    IF HeaderRaises(lines) THEN [raised |-> TRUE, rows |-> <<>>, returned |-> FALSE]
    ELSE [raised |-> FALSE, rows |-> RowsOf(AfterWerte(lines), PrecipReads),
          returned |-> TRUE]

\* parse_ehyd_csv: the lines from data_start on: after the first line that
\* holds 'Werte:', or from the first line that starts with '01.'
CsvSection(lines) ==
    LET marks == {i \in DOMAIN lines :
                     StartsWith(lines[i], "Werte:") \/ lines[i][1].k = "datetime"}
        first == CHOOSE i \in marks : \A j \in marks : i <= j
    IN  IF marks = {} THEN lines
        ELSE IF StartsWith(lines[first], "Werte:") THEN SubSeq(lines, first + 1, Len(lines))
        ELSE SubSeq(lines, first, Len(lines))

\* parse_ehyd_csv appends the line: no gap marker, a date, and a value
\* without 'Lücke' and without '-'
CsvReads(line) ==
    /\ ~IsBlank(line) /\ ~HasGap(line)
    /\ Len(line) >= 2
    /\ line[1].k = "datetime"
    /\ line[2].k = "num" /\ line[2].v >= 0

\* parse_ehyd_csv(filepath): a DataFrame if a row was read, None otherwise
ParseEhydCsv(lines) ==
    LET rows == RowsOf(CsvSection(lines), CsvReads)
    IN  [raised |-> FALSE, rows |-> rows, returned |-> rows # <<>>]

\* parse_ehyd_monthly: the lines from the first one that starts with a date
MonthlySection(lines) ==
    LET dated == {i \in DOMAIN lines : DateLike(lines[i][1])}
    IN  IF dated = {} THEN lines
        ELSE SubSeq(lines, CHOOSE i \in dated : \A j \in dated : i <= j, Len(lines))

\* parse_ehyd_monthly appends the line: if val > 0
MonthlyReads(line) ==
    /\ ~IsBlank(line) /\ ~HasGap(line)
    /\ Len(line) >= 2
    /\ line[1].k = "datetime"
    /\ line[2].k = "num" /\ line[2].v > 0

\* len(dates) >= 60
MinMonthly == 60

\* parse_ehyd_monthly(filepath): rows are the dates and values collected,
\* returned as a Series when there are 60 of them
ParseEhydMonthly(lines) ==
    LET rows == RowsOf(MonthlySection(lines), MonthlyReads)
    IN  [raised |-> FALSE, rows |-> rows, returned |-> Len(rows) >= MinMonthly]

ParseInit ==
    /\ fileLines \in SeqsUpTo(FileLineChoices, MaxLines)
    /\ parsed = [fn |-> "none"]
    /\ nbFlow = <<>> /\ nbPrecip = <<>>
    /\ nbOut = [fn |-> "none", res |-> NoSummaryFlow]
    /\ gwSeries = <<>> /\ gwOut = [fn |-> "none"]
    /\ dayValues = <<>> /\ dayOut = [fn |-> "none"]
    /\ EmptyStore
    /\ NoCall

\* the parser fn is called on the file and gives out
Parses(fn, out) ==
    /\ parsed.fn = "none"
    /\ parsed' = Update(out, [fn |-> fn])
    /\ UNCHANGED fileLines
    /\ UNCHANGED nearbyVars
    /\ UNCHANGED seriesVars
    /\ UNCHANGED storeVars
    /\ UNCHANGED callVars

CallParseFlowFile == Parses("parse_flow_file", ParseFlowFile(fileLines))

CallParsePrecipFile == Parses("parse_precip_file", ParsePrecipFile(fileLines))

CallParseEhydCsv == Parses("parse_ehyd_csv", ParseEhydCsv(fileLines))

CallParseEhydMonthly == Parses("parse_ehyd_monthly", ParseEhydMonthly(fileLines))

ParseNext ==
    \/ CallParseFlowFile
    \/ CallParsePrecipFile
    \/ CallParseEhydCsv
    \/ CallParseEhydMonthly

SpecParse == ParseInit /\ [][ParseNext]_vars

\* a data row with a date and a number
WellFormedRow(line) ==
    Len(line) = 2 /\ line[1].k = "datetime" /\ line[2].k = "num"

\* the rows of the file's data section that are well formed
WellFormedRows ==
    LET section == AfterWerte(fileLines)
    IN  {<<section[i][1].v, section[i][2].v>> :
            i \in {j \in DOMAIN section : WellFormedRow(section[j])}}

\* C16 as stated: the parsers of groundwater level files keep every
\* well-formed data row as an observation, its value positive, zero or
\* negative.
C16_AsStated ==
    parsed.fn \in {"parse_ehyd_monthly", "parse_ehyd_csv"} =>
        WellFormedRows \subseteq Range(parsed.rows)

\* C17 as stated: whatever the file holds, a parser does not fail: the lines
\* with a bad date, a bad number or a gap marker give no row, and every
\* well-formed row (here those with a positive value, valid for every
\* variable) is among the rows read.
C17_AsStated ==
    parsed.fn # "none" =>
        /\ ~parsed.raised
        /\ Range(parsed.rows) \subseteq
              {<<fileLines[i][1].v, fileLines[i][2].v>> :
                  i \in {j \in DOMAIN fileLines : WellFormedRow(fileLines[j])}}
        /\ {r \in WellFormedRows : r[2] > 0} \subseteq Range(parsed.rows)

---------------------------------------------------------------------------
(* analyze_sediment.py: the trend of a sediment station and its record in   *)
(* data/sediment_analysis.json                                              *)

\* len(sorted_years) >= 6
MinSedimentYears == 6

\* analyze_trends(values): None for no values; the trend is the change from
\* the mean of the first three yearly averages to that of the last three,
\* and 0 for fewer than 6 years or a first mean that is not positive
SedimentTrends(values) ==
    IF values = <<>> THEN [has |-> FALSE]
    ELSE LET yearly_avg == ResampleAnnualMean(values)
             n == Len(yearly_avg)
             recent == RDiv(RSeqSum(SubSeq(yearly_avg, n - 2, n)), RInt(3))
             older == RDiv(RSeqSum(SubSeq(yearly_avg, 1, 3)), RInt(3))
         IN  [has |-> TRUE,
              mean |-> RNorm(SumValues(values), Len(values)),
              trend |-> IF n >= MinSedimentYears /\ older[1] > 0
                        THEN RDiv(RSub(recent, older), older)
                        ELSE RInt(0),
              count |-> Len(values)]

\* main(): the record appended to results for a station with values and a
\* river; mean_daily_t and trend_pct in tenths
SedimentRecord(values, river) ==
    LET st == SedimentTrends(values)
    IN  IF st.has /\ river # ""
        THEN [fn |-> "analyze_sediment", listed |-> TRUE,
              years |-> Cardinality(YearsOf(values)),
              record |-> [river |-> river,
                          mean_daily_t |-> RRound(st.mean, 10),
                          trend_pct |-> RRound(RMul(st.trend, RInt(100)), 10),
                          data_points |-> st.count]]
        ELSE [fn |-> "analyze_sediment", listed |-> FALSE,
              years |-> Cardinality(YearsOf(values))]

\* the years a sediment file may cover, and the daily loads it may hold
MaxSedimentYears == 7

SedimentLoads == {10, 20}

SedimentInit ==
    /\ \E loads \in SeqsUpTo(SedimentLoads, MaxSedimentYears) :
          dayValues = [k \in 1..Len(loads) |-> [y |-> 1999 + k, s |-> 1, v |-> loads[k]]]
    /\ dayOut = [fn |-> "none"]
    /\ gwSeries = <<>> /\ gwOut = [fn |-> "none"]
    /\ nbFlow = <<>> /\ nbPrecip = <<>>
    /\ nbOut = [fn |-> "none", res |-> NoSummaryFlow]
    /\ EmptyStore
    /\ NoFile
    /\ NoCall

\* analyze_sediment.main() for the file of one station
AnalyzeSedimentFile ==
    /\ dayOut.fn = "none"
    /\ \E river \in {"Salzach", ""} : dayOut' = SedimentRecord(dayValues, river)
    /\ UNCHANGED <<gwSeries, gwOut, dayValues>>
    /\ UNCHANGED parseVars
    /\ UNCHANGED callVars
    /\ UNCHANGED nearbyVars
    /\ UNCHANGED storeVars

SedimentNext == AnalyzeSedimentFile

SpecSediment == SedimentInit /\ [][SedimentNext]_vars

\* C18 as stated, for the sediment stations: a station with fewer than 6
\* years of data has no record with a trend in sediment_analysis.json, the
\* file the later stages read.
C18_AsStated ==
    (dayOut.fn = "analyze_sediment" /\ dayOut.years < MinSedimentYears) =>
        ~(dayOut.listed /\ Has(dayOut.record, "trend_pct"))

---------------------------------------------------------------------------
(* Missing inputs and runs that stop partway *)

\* the files under web/data that a script opens for reading and that an
\* earlier script writes
UpstreamInputs(stage) ==
    CASE stage = "fix_coordinates" -> {"gw_stations_trends.json"}
      [] stage \in {"analyze_trends", "analyze_trends_full"} ->
             {"gw_stations.json", "municipalities.json", "municipalities_risk.geojson"}
      [] stage \in {"final_hydro_factor", "integrate_flow"} ->
             {"municipalities.json", "powerplants.json"}
      [] stage = "integrate_precipitation" -> {"municipalities.json"}
      [] stage = "update_geojson" -> {"municipalities.json", "municipalities_risk.geojson"}
      [] OTHER -> {}

\* the files and collections under web/data
persisted == <<files, municipalities, geojson, gw_stations, gw_stations_trends>>

\* this step is a run of some script
ARun == runs' = runs + 1

\* C19 as stated: a script run while one of its upstream inputs is missing
\* ends in a failure and writes nothing under web/data.
C19_AsStated ==
    [][(ARun /\ ~(UpstreamInputs(lastRun'.stage) \subseteq files))
          => (~lastRun'.ok /\ UNCHANGED persisted)]_vars

\* C20 as stated: a script run that does not reach its end leaves every
\* file and collection under web/data as it was before the run, whatever
\* made it stop.
C20_AsStated ==
    [][(ARun /\ ~lastRun'.ok) => (persisted' = persisted)]_vars

---------------------------------------------------------------------------
(* The station locations made from projected coordinates, one row of a      *)
(* station listing at a time                                                *)

\* the projected coordinates a row of a listing may hold, in metres; 0 is an
\* empty column
ListedEastings == {0, 100000, 137500, 250000, 400000, 550000, 700000, 775000}

ListedNorthings == {0, 150000, 194400, 250000, 400000, 483000, 527400, 600000}

\* 9.5 < lon < 17.2 and 46.4 < lat < 49.0, lon and lat in degrees
InAustria(lon, lat) ==
    /\ Between(RNorm(19, 2), lon, RNorm(86, 5))
    /\ Between(RNorm(232, 5), lat, RInt(49))

NoLocation(fn) == [fn |-> fn, stored |-> FALSE]

Location(fn, lon, lat) == [fn |-> fn, stored |-> TRUE, lon |-> lon, lat |-> lat]

\* parse_gw_stations_correct(), one row: the station is appended only inside
\* the bounds
CorrectLocation(x, y) ==
    IF InAustria(LambertLon(x), LambertLat(y))
    THEN Location("parse_gw_stations_correct", LambertLon(x), LambertLat(y))
    ELSE NoLocation("parse_gw_stations_correct")

\* lon = 9 + (x - 100000) / 75000
BmnLon(x) == RAdd(RInt(9), RNorm(x - 100000, 75000))

\* lat = 46 + (y - 150000) / 111000
BmnLat(y) == RAdd(RInt(46), RNorm(y - 150000, 111000))

\* analyze_flow.load_owf_coords(), one row: coords[hzb] is set when x and y
\* are both there
OwfLocation(x, y) ==
    IF x # 0 /\ y # 0
    THEN Location("load_owf_coords", BmnLon(x), BmnLat(y))
    ELSE NoLocation("load_owf_coords")

\* final_hydro_factor.calculate_factor(), one OWF row of a sediment station:
\* lat_approx and lon_approx go into haversine when x and y are both there
SedimentLocation(x, y) ==
    IF x # 0 /\ y # 0
    THEN Location("calculate_factor", BmnLon(x), BmnLat(y))
    ELSE NoLocation("calculate_factor")

CoordsInit ==
    /\ \E x \in ListedEastings : \E y \in ListedNorthings : args = [x |-> x, y |-> y]
    /\ result = [fn |-> "none"]
    /\ nbFlow = <<>> /\ nbPrecip = <<>>
    /\ nbOut = [fn |-> "none", res |-> NoSummaryFlow]
    /\ gwSeries = <<>> /\ gwOut = [fn |-> "none"]
    /\ dayValues = <<>> /\ dayOut = [fn |-> "none"]
    /\ EmptyStore
    /\ NoFile

\* the function is called on args and returns out
Returns(out) ==
    /\ result.fn = "none"
    /\ result' = out
    /\ UNCHANGED args
    /\ UNCHANGED nearbyVars
    /\ UNCHANGED seriesVars
    /\ UNCHANGED parseVars
    /\ UNCHANGED storeVars

CallParseGwStationsCorrect == Returns(CorrectLocation(args.x, args.y))

CallLoadOwfCoords == Returns(OwfLocation(args.x, args.y))

CallSedimentLocation == Returns(SedimentLocation(args.x, args.y))

CoordsNext ==
    \/ CallParseGwStationsCorrect
    \/ CallLoadOwfCoords
    \/ CallSedimentLocation

SpecCoords == CoordsInit /\ [][CoordsNext]_vars

\* C21 as stated: every station location made from projected coordinates
\* and kept, or used for a distance, lies inside the bounding box.
C21_AsStated ==
    (result.fn # "none" /\ result.stored) => InAustria(result.lon, result.lat)

---------------------------------------------------------------------------
(* Repeated runs of quick_process *)

\* the stored risk_score and risk_category of every region, by iso
ScoresOf(munis) ==
    {<<munis[i].iso, munis[i].risk_score, munis[i].risk_category>> : i \in DOMAIN munis}

\* C22 as stated: a second run of quick_process on the same input files
\* right after the first stores the same risk_score and risk_category for
\* every region.
C22_AsStated ==
    [][RanTwice("quick_process") => ScoresOf(municipalities') = ScoresOf(municipalities)]_vars

---------------------------------------------------------------------------
(* analyze_flow.calculate_trend on the annual means of one station, and the *)
(* flow risk of a municipality that has this station alone within reach.    *)
(* annual is the list of the annual means of consecutive years, the first   *)
(* being the year 1; sums are taken of the values less their minimum, which *)
(* changes neither the deviations from the mean nor the slope.              *)

\* len(annual) < 10, len(x) < 10
MinFlowYears == 10

LeastOf(ys) == CHOOSE v \in Range(ys) : \A w \in Range(ys) : v <= w

\* y less its minimum
Lowered(ys) == [k \in DOMAIN ys |-> ys[k] - LeastOf(ys)]

\* n * n * std_y ** 2
VarianceTimesNSq(ys) ==
    LET d == Lowered(ys)
        n == Len(ys)
    IN  n * SeqSum([k \in 1..n |-> d[k] * d[k]]) - SeqSum(d) * SeqSum(d)

\* mask[k]: True when std_y is 0 (no mask is applied), else
\* abs(y - mean_y) < 2 * std_y
WithinTwoStd(ys, k) ==
    LET d == Lowered(ys)
        n == Len(ys)
        dev == n * d[k] - SeqSum(d)
    IN  VarianceTimesNSq(ys) > 0 => dev * dev < 4 * VarianceTimesNSq(ys)

\* the years x[mask]
MaskedYears(ys) == SelectAt([k \in DOMAIN ys |-> k], LAMBDA k : WithinTwoStd(ys, k))

\* sum(x * y) / sum(x * x): the slope of a line through the origin
SlopeThroughOrigin(xs, ys) ==
    RNorm(SeqSum([i \in DOMAIN xs |-> xs[i] * Lowered(ys)[xs[i]]]),
          SeqSum([i \in DOMAIN xs |-> xs[i] * xs[i]]))

\* np.polyfit(x, y, 1)[0] for the years xs and the values ys[x] of them
PolyfitSlope(xs, ys) ==
    LET d == Lowered(ys)
        m == Len(xs)
        Sx == SeqSum(xs)
        Sxx == SeqSum([i \in 1..m |-> xs[i] * xs[i]])
        Sy == SeqSum([i \in 1..m |-> d[xs[i]]])
        Sxy == SeqSum([i \in 1..m |-> xs[i] * d[xs[i]]])
    IN  RNorm(m * Sxy - Sx * Sy, m * Sxx - Sx * Sx)

\* calculate_trend(annual): trend_per_decade, mean_flow and trend_pct, or
\* None for fewer than 10 years, before or after the outliers are removed
FlowTrend(annual) ==
    IF Len(annual) < MinFlowYears THEN [has |-> FALSE]
    ELSE LET x == MaskedYears(annual)
         IN  IF Len(x) < MinFlowYears THEN [has |-> FALSE]
             ELSE LET slope == PolyfitSlope(x, annual)
                      mean_flow == RNorm(SeqSum([i \in DOMAIN x |-> annual[x[i]]]), Len(x))
                  IN  [has |-> TRUE,
                       trend |-> RMul(RInt(10), slope),
                       mean_flow |-> mean_flow,
                       trend_pct |-> IF mean_flow[1] > 0
                                     THEN RMul(RMul(RInt(1000), slope),
                                               <<mean_flow[2], mean_flow[1]>>)
                                     ELSE RInt(0)]

\* analyze_flow.main(): the record appended to results for the station, which
\* lies where the municipality does; trend_pct_decade in tenths of a percent,
\* mean_flow_m3s in hundredths
FlowRecord(t) ==
    [hzb |-> "F1", river |-> "Salzach", lat |-> LoopMuni.lat, lon |-> LoopMuni.lon,
     mean_flow_m3s |-> RRound(t.mean_flow, 100),
     trend_pct_decade |-> RRound(t.trend_pct, 10)]

\* calculate_trend for the station, and integrate_flow's loop body for the
\* municipality with flow_analysis.json holding the station's record alone
StationAndRegion(annual) ==
    LET t == FlowTrend(annual)
    IN  IF ~t.has THEN [fn |-> "calculate_trend", has |-> FALSE]
        ELSE [fn |-> "calculate_trend", has |-> TRUE, trend |-> t.trend,
              record |-> FlowRecord(t),
              stored |-> WithFlow(LoopMuni, <<FlowRecord(t)>>, {"Salzach"})]

\* the most years of annual means a station has
MaxFlowYears == 12

\* the annual means a station may have, in the unit of its file, from the
\* highest to the lowest
FlowMeans == <<5000, 4999, 4800, 4600>>

NonIncreasing(ys) == \A k \in 1..(Len(ys) - 1) : ys[k + 1] <= ys[k]

\* n annual means that never increase: the first cut[1] years have the
\* highest mean, the years up to cut[2] the next, and so on
Stepped(n, cut) ==
    [k \in 1..n |-> FlowMeans[1 + Cardinality({j \in DOMAIN cut : cut[j] < k})]]

SteppedSeries ==
    {Stepped(n, cut) : n \in (MinFlowYears - 1)..MaxFlowYears,
                       cut \in {c \in [1..3 -> 0..MaxFlowYears] : c[1] <= c[2] /\ c[2] <= c[3]}}

FlowTrendInit ==
    /\ \E annual \in SteppedSeries \cup {<<10, 10, 10, 10, 10, 10, 9, 9, 8, 8, 7, 7>>} :
          args = [annual |-> annual]
    /\ result = [fn |-> "none"]
    /\ nbFlow = <<>> /\ nbPrecip = <<>>
    /\ nbOut = [fn |-> "none", res |-> NoSummaryFlow]
    /\ gwSeries = <<>> /\ gwOut = [fn |-> "none"]
    /\ dayValues = <<>> /\ dayOut = [fn |-> "none"]
    /\ EmptyStore
    /\ NoFile

CallFlowTrend == Returns(StationAndRegion(args.annual))

FlowTrendNext == CallFlowTrend

SpecFlowTrend == FlowTrendInit /\ [][FlowTrendNext]_vars

\* the annual means never increase, decrease at least once, cover at least
\* 10 years and none of them is 2 standard deviations or more from the mean
Declining(ys) ==
    /\ Len(ys) >= MinFlowYears
    /\ NonIncreasing(ys)
    /\ ys[Len(ys)] < ys[1]
    /\ \A k \in DOMAIN ys : WithinTwoStd(ys, k)

CalledOnDeclining == result.fn = "calculate_trend" /\ Declining(args.annual)

\* C23 as stated: the declining station gets a negative trend per decade,
\* and the municipality with this station alone in its radius a flow risk
\* above 0.5.
C23_AsStated ==
    CalledOnDeclining =>
        /\ result.has
        /\ result.trend[1] < 0
        /\ result.stored.flow_risk # None
        /\ result.stored.flow_risk[1] > 500

\* C23: the declining station gets a negative trend per decade; the flow
\* risk of the municipality with this station alone in its radius is at
\* least 0.5, and above 0.5 exactly when the station's trend in percent per
\* decade, rounded to one decimal as flow_analysis.json holds it, is below 0.
C23_DecliningStation ==
    CalledOnDeclining =>
        /\ result.has
        /\ result.trend[1] < 0
        /\ result.stored.flow_risk # None
        /\ result.stored.flow_risk[1] >= 500
        /\ result.stored.flow_risk[1] > 500 <=> result.record.trend_pct_decade < 0

\* the series of the worked scenario has been analysed: trend -3.5 % of the
\* mean per decade and more, risk above 0.5
C23_Witness ==
    /\ CalledOnDeclining
    /\ args.annual = <<10, 10, 10, 10, 10, 10, 9, 9, 8, 8, 7, 7>>
    /\ result.stored.flow_risk[1] > 500

---------------------------------------------------------------------------
(* final_hydro_factor.calculate_factor on its own: one municipality, one    *)
(* plant and one sediment station                                           *)

\* min(1.0, hydro_impact / 500)
BaseFactor(m, plants) == RMin(RInt(1), RDiv(HydroImpact(m, plants), RInt(500)))

\* calculate_factor(m, plants, sediment, owf_meta): final_factor,
\* hydro_impact and sed_factor, rounded as they are returned
CalculateFactor(m, plants, sediment, owf_meta) ==
    LET sed_factor == SedFactor(m, sediment, owf_meta)
        final_factor == RMin(RInt(1),
                             RMul(BaseFactor(m, plants),
                                  RAdd(RInt(1), RMul(sed_factor, RNorm(1, 5)))))
    IN  [fn |-> "calculate_factor",
         hydro_factor |-> RRound(final_factor, 1000),
         hydro_impact_score |-> RRound(HydroImpact(m, plants), 10),
         sediment_modifier |-> RRound(sed_factor, 1000)]

\* the plant near the municipality: its type and its mw
PlantTypes == {"Laufkraftwerk", "Speicherkraftwerk", "Pumpspeicherkraftwerk", "Kraftwerk"}

PlantMw == {0, 100, 400, 2000}

\* the trend_pct of the sediment station, in tenths of a percent
SedimentTrendPcts == {-1000, -200, 0, 1000}

FactorInit ==
    /\ \E type \in PlantTypes : \E mw \in PlantMw :
       \E trend_pct \in SedimentTrendPcts : \E owf_meta \in {OwfMeta, <<>>} :
          args = [m |-> LoopMuni,
                  plants |-> <<[lat |-> 4750, lon |-> 1330, type |-> type, mw |-> mw,
                                region |-> "Salzburg", river |-> "Salzach"]>>,
                  sediment |-> <<[station |-> "Mittersill", hzb |-> "203000",
                                  river |-> "Salzach", trend_pct |-> trend_pct]>>,
                  owf_meta |-> owf_meta]
    /\ result = [fn |-> "none"]
    /\ nbFlow = <<>> /\ nbPrecip = <<>>
    /\ nbOut = [fn |-> "none", res |-> NoSummaryFlow]
    /\ gwSeries = <<>> /\ gwOut = [fn |-> "none"]
    /\ dayValues = <<>> /\ dayOut = [fn |-> "none"]
    /\ EmptyStore
    /\ NoFile

CallCalculateFactor ==
    Returns(CalculateFactor(args.m, args.plants, args.sediment, args.owf_meta))

FactorNext == CallCalculateFactor

SpecFactor == FactorInit /\ [][FactorNext]_vars

\* C24 as stated: the hydro_factor that calculate_factor returns, and that
\* the weighted sum of recalculate_risk_score is fed with, is the base
\* factor min(1, hydro_impact / 500): the sediment modifier has not altered
\* it.
C24_AsStated ==
    result.fn = "calculate_factor" =>
        result.hydro_factor = RRound(BaseFactor(args.m, args.plants), 1000)

---------------------------------------------------------------------------
(* recalculate_risk_score on its own: one region record with any of its     *)
(* per-variable risks absent, null or a number                              *)

\* a field of the record read is absent, null, or a number of thousandths
Absent == -2

Null == -1

RiskField(k, c) ==
    IF c = Absent THEN <<>> ELSE (k :> (IF c = Null THEN None ELSE Some(c)))

\* the region record with the four risks
WithRisks(gw_risk, hydro_factor, precip_risk, flow_risk) ==
    RiskField("gw_risk", gw_risk) @@ RiskField("hydro_factor", hydro_factor)
        @@ RiskField("precip_risk", precip_risk) @@ RiskField("flow_risk", flow_risk)
        @@ LoopMuni

GwRiskChoices == {Absent, Null, 0, 999, 1000}

HydroFactorChoices == {Absent, 0, 400, 1000}

PrecipRiskChoices == {Absent, Null, 0, 400, 500, 1000}

FlowRiskChoices == {Absent, Null, 0, 500, 1000}

ScoreInit ==
    /\ \E gw_risk \in GwRiskChoices : \E hydro_factor \in HydroFactorChoices :
       \E precip_risk \in PrecipRiskChoices : \E flow_risk \in FlowRiskChoices :
          args = WithRisks(gw_risk, hydro_factor, precip_risk, flow_risk)
    /\ result = [fn |-> "none"]
    /\ nbFlow = <<>> /\ nbPrecip = <<>>
    /\ nbOut = [fn |-> "none", res |-> NoSummaryFlow]
    /\ gwSeries = <<>> /\ gwOut = [fn |-> "none"]
    /\ dayValues = <<>> /\ dayOut = [fn |-> "none"]
    /\ EmptyStore
    /\ NoFile

\* m['risk_score'], m['risk_category'] = recalculate_risk_score(m) of
\* integrate_flow
CallRecalculateFlow ==
    Returns([fn |-> "integrate_flow", stored |-> Recalculated(args, FlowRawScore(args))])

\* the same of integrate_precipitation
CallRecalculatePrecip ==
    Returns([fn |-> "integrate_precipitation",
             stored |-> Recalculated(args, PrecipRawScore(args))])

ScoreNext == CallRecalculateFlow \/ CallRecalculatePrecip

SpecScore == ScoreInit /\ [][ScoreNext]_vars

\* C25 as stated: the risk_category stored with a recalculated score is the
\* category of the stored, rounded risk_score: 'high' from 0.6, 'medium'
\* from 0.4, 'low' below.
C25_AsStated ==
    result.fn # "none" =>
        result.stored.risk_category = CategoryFrom(result.stored.risk_score, 600, 400)

---------------------------------------------------------------------------
(* The two integration scripts in either order *)

\* municipalities.json after integrate_precipitation.main() has run on munis
AfterPrecip(munis) ==
    LET precip == WithCoordinates(PrecipAnalysis)
        results == Tuple([i \in 1..Len(munis) |-> WithPrecip(munis[i], precip)])
    IN  SortDesc(results, LAMBDA r : r.risk_score)

\* municipalities.json after integrate_flow.main() has run on munis, kept[i]
\* being the rivers find_nearby_flow returned for munis[i]
AfterFlow(munis, kept) ==
    LET flow == WithCoordinates(FlowAnalysis)
        results == Tuple([i \in 1..Len(munis) |-> WithFlow(munis[i], flow, kept[i])])
    IN  SortDesc(results, LAMBDA r : r.risk_score)

\* C26 as stated: from the municipalities.json at hand, running
\* integrate_precipitation and then integrate_flow stores the same
\* risk_score and risk_category for every region as running integrate_flow
\* and then integrate_precipitation.
C26_AsStated ==
    {"municipalities.json", "powerplants.json"} \subseteq files =>
        \A kept \in KeptChoices(municipalities, WithCoordinates(FlowAnalysis)) :
        \A later \in KeptChoices(AfterPrecip(municipalities), WithCoordinates(FlowAnalysis)) :
            ScoresOf(AfterFlow(AfterPrecip(municipalities), later))
                = ScoresOf(AfterPrecip(AfterFlow(municipalities, kept)))

---------------------------------------------------------------------------
(* The per-variable risks recalculate_risk_score reads *)

\* the number a stored risk stands for, with `neutral` for an absent or null
\* one
StoredOr(m, k, neutral) == IF Has(m, k) /\ m[k] # None THEN m[k][1] ELSE neutral

\* C27 as stated: recalculate_risk_score uses the stored precip_risk and
\* flow_risk whenever they are numbers, 0.0 included, and the neutral 0.5
\* only for an absent or null one.
C27_AsStated ==
    /\ result.fn = "integrate_flow" =>
           result.stored.risk_score =
               RoundDiv(35 * GetOr(args, "gw_risk", 0) + 25 * GetOr(args, "hydro_factor", 0)
                            + 25 * StoredOr(args, "precip_risk", 500)
                            + 15 * StoredOr(args, "flow_risk", 500), 100)
    /\ result.fn = "integrate_precipitation" =>
           result.stored.risk_score =
               RoundDiv(40 * GetOr(args, "gw_risk", 0) + 30 * GetOr(args, "hydro_factor", 0)
                            + 30 * StoredOr(args, "precip_risk", 500), 100)

---------------------------------------------------------------------------
(* The trend and the risk a loop body stores *)

\* C28 as stated: in the record a loop body of integrate_flow or
\* integrate_precipitation stores, the trend is None exactly when the risk
\* is None.
C28_AsStated ==
    nbOut.fn # "none" => (StoredTrend = None <=> StoredRisk = None)

---------------------------------------------------------------------------
(* The GeoJSON updates by name: three regions, some of them of one name     *)

\* the iso codes of the regions, and the names a region may have
RegionIsos == <<"30618", "80224", "50606">>

RegionNames == {"Krumbach", "Kaprun"}

\* the risk_score a region record may hold, in thousandths
RegionScores == {100, 500, 700}

\* a region record of municipalities.json with the fields the GeoJSON
\* updates read; the regions lie apart from every groundwater station
RegionRecord(i, name, score) ==
    [name |-> name, iso |-> RegionIsos[i], lat |-> 4600 + i, lon |-> 1000,
     hydro_risk |-> 0, pump_risk |-> 0,
     risk_score |-> score, risk_category |-> CategoryFrom(score, 600, 400)]

\* the properties of the region's feature, with the score of an earlier run
RegionFeature(i, name) ==
    [name |-> name, iso |-> RegionIsos[i], risk_score |-> 60, risk_category |-> "low"]

GeoInit ==
    /\ \E names \in [DOMAIN RegionIsos -> RegionNames] :
       \E scores \in [DOMAIN RegionIsos -> RegionScores] :
          /\ municipalities = [i \in DOMAIN RegionIsos |-> RegionRecord(i, names[i], scores[i])]
          /\ geojson = [i \in DOMAIN RegionIsos |-> RegionFeature(i, names[i])]
    /\ files = QuickFiles
    /\ gw_stations = ParseGwStations
    /\ gw_stations_trends = <<>>
    /\ lastRun = [stage |-> "none", ok |-> TRUE]
    /\ writers = {}
    /\ runs = 0
    /\ nbFlow = <<>> /\ nbPrecip = <<>>
    /\ nbOut = [fn |-> "none", res |-> NoSummaryFlow]
    /\ gwSeries = <<>> /\ gwOut = [fn |-> "none"]
    /\ dayValues = <<>> /\ dayOut = [fn |-> "none"]
    /\ NoFile
    /\ NoCall

GeoNext ==
    \/ runs < MaxRuns /\ UpdateGeojson
    \/ runs < MaxRuns /\ AnalyzeTrendsFull

SpecGeo == GeoInit /\ [][GeoNext]_vars

\* C29 as stated: after update_geojson, and after analyze_trends_full has
\* updated the GeoJSON, the feature of every region (the feature with the
\* region's iso) carries the risk_score and risk_category of that region's
\* record.
C29_AsStated ==
    (lastRun.stage \in {"update_geojson", "analyze_trends_full"} /\ lastRun.ok) =>
        \A i \in DOMAIN geojson : \A j \in DOMAIN municipalities :
            geojson[i].iso = municipalities[j].iso =>
                /\ geojson[i].risk_score = municipalities[j].risk_score
                /\ geojson[i].risk_category = municipalities[j].risk_category

---------------------------------------------------------------------------
(* What update_municipality_risk changes *)

\* the search radius of the script, in hundredths of a degree, the trend of
\* full risk in 1e-4 m per decade, and the thresholds of its categories
RiskRadius(stage) == IF stage = "analyze_trends_full" THEN 30 ELSE 20

FullRiskTrend(stage) == IF stage = "analyze_trends_full" THEN 3000 ELSE 5000

HighAbove(stage) == IF stage = "analyze_trends_full" THEN 700 ELSE 600

MediumAbove(stage) == IF stage = "analyze_trends_full" THEN 400 ELSE 300

\* this step is a run of `stage` in which update_municipality_risk has
\* rewritten municipalities.json
UpdatesRisk(stage) ==
    /\ ARun
    /\ lastRun'.stage = stage
    /\ {"gw_stations.json", "municipalities.json"} \subseteq files

\* the trends of the stations of the new trends file near region i
TrendsNear(i, stage) ==
    NearbyTrends(municipalities[i], gw_stations_trends', RiskRadius(stage))

\* C30: update_municipality_risk of analyze_trends_full and analyze_trends
\* leaves the record of a region with no trend-bearing station in its radius
\* as it was, gw_trend, gw_risk, risk_score and risk_category of an earlier
\* run included; a region with such a station gets all four fields, gw_trend
\* and gw_risk from the mean trend of this run's stations and the category
\* of the new score.
C30_FrameOfRiskUpdate ==
    [][\A stage \in {"analyze_trends_full", "analyze_trends"} :
          UpdatesRisk(stage) =>
              /\ Len(municipalities') = Len(municipalities)
              /\ \A i \in DOMAIN municipalities :
                    LET near == TrendsNear(i, stage)
                        avg_trend == RNorm(SeqSum(near), Len(near))
                        new == municipalities'[i]
                    IN  IF near = <<>> THEN new = municipalities[i]
                        ELSE /\ {"gw_trend", "gw_risk", "risk_score", "risk_category"}
                                    \subseteq DOMAIN new
                             /\ new.gw_trend = Some(RRound(avg_trend, 1))
                             /\ new.gw_risk
                                    = Some(RRound(GwRisk(avg_trend, FullRiskTrend(stage)), 1000))
                             /\ new.risk_category
                                    = CategoryAbove(new.risk_score, HighAbove(stage),
                                                    MediumAbove(stage))]_vars

\* analyze_trends_full has run: one region has a station with a trend in its
\* radius, another has none and still holds the gw_trend of an earlier run
C30_Witness ==
    /\ lastRun = [stage |-> "analyze_trends_full", ok |-> TRUE]
    /\ \E i \in DOMAIN municipalities :
          NearbyTrends(municipalities[i], gw_stations_trends, 30) # <<>>
    /\ \E i \in DOMAIN municipalities :
          /\ NearbyTrends(municipalities[i], gw_stations_trends, 30) = <<>>
          /\ Has(municipalities[i], "gw_trend")

=============================================================================
